---- MODULE Spec2Model ----
(***************************************************************************)
(* A model of pyrin's swagger document synthesizer                         *)
(* (src/src/pyrin/api/swagger/structs.py, class ExtendedSwagger).          *)
(*                                                                         *)
(* Python values are modelled as follows.                                  *)
(*   dict            a function whose domain is the set of keys present;   *)
(*                   an absent key is absent from the domain.              *)
(*   ordered dict    (the responses section, whose iteration order decides *)
(*                   the result of a key conversion) a sequence of         *)
(*                   [key, value] records in insertion order.              *)
(*   list            a sequence.                                           *)
(*   None / a value  <<>> / <<v>> wherever the code tests `is None`.       *)
(*   int key 401     [int |-> 401];  str key '401'  [str |-> "401"].       *)
(***************************************************************************)
EXTENDS Integers, Sequences, FiniteSets, TLC

None == <<>>
Some(x) == <<x>>

Has(d, k) == k \in DOMAIN d

\* dict.setdefault(k, v), as the dict it leaves behind
SetDefault(d, k, v) == IF Has(d, k) THEN d ELSE d @@ (k :> v)

\* d[k] = v
Put(d, k, v) == [x \in (DOMAIN d) \cup {k} |-> IF x = k THEN v ELSE d[x]]

(***************************************************************************)
(* Names supplied by collaborators of the synthesizer.                     *)
(***************************************************************************)
LOCALE_PARAM_NAME == "lang"
TIMEZONE_PARAM_NAME == "tz"
PAGE_PARAM_NAME == "page"
PAGE_SIZE_PARAM_NAME == "page_size"

UNAUTHORIZED == 401
FORBIDDEN == 403

LocaleDescription == "request locale to be sent. for example en, fa, fr ..."
TimezoneDescription == "request timezone to be sent. for example UTC, Asia/Tehran ..."
PageDescription == "page number to be get."
PageSizeDescription == "page size to be get."
PermissionDeniedDescription == "you do not have the required permissions to access this resource."
AuthenticationFailedDescription == "user has not been authenticated."
SuccessDescription == "successful execution of service."

\* str.upper() on the verbs the model uses
Upper(verb) ==
    CASE verb \in {"get", "GET", "Get", "gEt"} -> "GET"
      [] verb \in {"post", "POST", "Post"} -> "POST"
      [] verb \in {"put", "PUT"} -> "PUT"
      [] verb \in {"delete", "DELETE", "Delete"} -> "DELETE"
      [] verb \in {"head", "HEAD", "Head"} -> "HEAD"
      [] verb \in {"options", "OPTIONS", "oPTIONS"} -> "OPTIONS"
      [] verb \in {"patch", "PATCH"} -> "PATCH"

\* status_services.get_status_code(method=...): the verb-based default
get_status_code(method) ==
    CASE method = "POST" -> 201
      [] method = "DELETE" -> 204
      [] OTHER -> 200

(***************************************************************************)
(* Sections of a fragment ("swag").                                        *)
(***************************************************************************)
_get_parameters_section(swag) == SetDefault(swag, "parameters", <<>>)
_get_responses_section(swag) == SetDefault(swag, "responses", <<>>)
_get_security_section(swag) == SetDefault(swag, "security", <<>>)
_get_tags_section(swag) == SetDefault(swag, "tags", <<>>)

\* _get_parameter that finds nothing
_get_parameter_not_found(name, parameters) == 0

\* the index of the first parameter named `name`, 0 for None
_get_parameter(name, parameters) ==
    LET hits == {i \in 1..Len(parameters) :
                    Has(parameters[i], "name") /\ parameters[i].name = name}
    IN IF hits = {} THEN 0 ELSE CHOOSE i \in hits : \A j \in hits : i <= j

OptionGet(options, k, default) == IF Has(options, k) THEN options[k] ELSE default

NewParameter_always_required(name, type_, in_, options) ==
    [name |-> name, required |-> TRUE, in |-> in_]

NewParameter(name, type_, in_, options) ==
    LET format_ == OptionGet(options, "format", None)
        required == OptionGet(options, "required", FALSE)
        description == OptionGet(options, "description", None)
        base == [name |-> name, required |-> required, in |-> in_]
        withType == IF type_ # None THEN Put(base, "type", type_[1]) ELSE base
        withFormat == IF format_ # None THEN Put(withType, "format", format_[1])
                      ELSE withType
    IN IF description # None THEN Put(withFormat, "description", description[1])
       ELSE withFormat

\* the value _add_parameter returns
Added(parameters, name) == _get_parameter(name, parameters) = 0

\* _add_parameter without the test for an entry of that name
_add_parameter_unchecked(parameters, name, type_, in_, options) ==
    IF OptionGet(options, "add_first", FALSE) = TRUE
    THEN <<NewParameter(name, type_, in_, options)>> \o parameters
    ELSE Append(parameters, NewParameter(name, type_, in_, options))

\* the list _add_parameter leaves behind
_add_parameter(parameters, name, type_, in_, options) ==
    IF _get_parameter(name, parameters) # 0
    THEN parameters
    ELSE IF OptionGet(options, "add_first", FALSE) = TRUE
         THEN <<NewParameter(name, type_, in_, options)>> \o parameters
         ELSE Append(parameters, NewParameter(name, type_, in_, options))

_get_param_location_as_written(name, rule, verb) ==
    IF name \in rule.arguments THEN "path"
    ELSE IF verb \in {"HEAD", "GET", "OPTIONS"} THEN "query"
    ELSE "json"

_get_param_location(name, rule, verb) ==
    IF name \in rule.arguments THEN "path"
    ELSE IF Upper(verb) \in {"HEAD", "GET", "OPTIONS"} THEN "query"
    ELSE "json"


\* the enumerations of a set: the orders in which Python may iterate over it
Orders(S) ==
    {s \in [1..Cardinality(S) -> S] : \A i, j \in 1..Cardinality(S) : s[i] = s[j] => i = j}

\* InferredType with int taken for a number
InferredType_int_as_number(argument_type) ==
    CASE argument_type \in {"int", "float"} -> Some("number")
      [] argument_type \in {"str", "UUID"} -> Some("string")
      [] OTHER -> None

\* type_ of a path argument whose declared Python type is argument_type
InferredType(argument_type) ==
    CASE argument_type = "int" -> Some("integer")
      [] argument_type = "float" -> Some("number")
      [] argument_type = "str" -> Some("string")
      [] argument_type = "UUID" -> Some("string")
      [] OTHER -> None

\* format_, were float left without one
InferredFormat_uuid_alone(argument_type) ==
    CASE argument_type = "UUID" -> Some("uuid")
      [] OTHER -> None

\* format_ of a path argument whose declared Python type is argument_type
InferredFormat(argument_type) ==
    CASE argument_type = "float" -> Some("float")
      [] argument_type = "UUID" -> Some("uuid")
      [] OTHER -> None

\* one turn of the loop, were the inferred location written over the author's
RequiredParameter_overwrites(params, name, rule, verb) ==
    LET in_ == _get_param_location(name, rule, verb)
        type_ == IF in_ = "path" THEN InferredType(rule.argument_type[name]) ELSE None
        format_ == IF in_ = "path" THEN InferredFormat(rule.argument_type[name]) ELSE None
    IN IF Added(params, name)
       THEN _add_parameter(params, name, type_, in_,
                           [required |-> TRUE, add_first |-> TRUE, format |-> format_])
       ELSE LET i == _get_parameter(name, params)
                p1 == Put(params[i], "required", TRUE)
                p2 == Put(p1, "in", in_)
                p3 == IF type_ # None THEN Put(p2, "type", type_[1]) ELSE p2
                p4 == IF format_ # None THEN Put(p3, "format", format_[1]) ELSE p3
            IN [params EXCEPT ![i] = p4]

\* one turn of the loop of _add_or_fix_required_parameters
RequiredParameter(params, name, rule, verb) ==
    LET in_ == _get_param_location(name, rule, verb)
        type_ == IF in_ = "path" THEN InferredType(rule.argument_type[name]) ELSE None
        format_ == IF in_ = "path" THEN InferredFormat(rule.argument_type[name]) ELSE None
    IN IF Added(params, name)
       THEN _add_parameter(params, name, type_, in_,
                           [required |-> TRUE, add_first |-> TRUE, format |-> format_])
       ELSE LET i == _get_parameter(name, params)
                p1 == Put(params[i], "required", TRUE)
                p2 == SetDefault(p1, "in", in_)
                p3 == IF type_ # None THEN SetDefault(p2, "type", type_[1]) ELSE p2
                p4 == IF format_ # None THEN SetDefault(p3, "format", format_[1]) ELSE p3
            IN [params EXCEPT ![i] = p4]

RECURSIVE RequiredParameters(_, _, _, _)
RequiredParameters(params, order, rule, verb) ==
    IF order = <<>> THEN params
    ELSE RequiredParameters(RequiredParameter(params, Head(order), rule, verb),
                            Tail(order), rule, verb)

RequiredArgs(rule) == rule.required_arguments \cup rule.arguments

\* _add_or_fix_required_parameters, were the documented names left alone
_add_or_fix_required_parameters_adds_only(rule, verb, swag, order) ==
    LET s == _get_parameters_section(swag)
        absent(name) == Added(s.parameters, name)
    IN [s EXCEPT !.parameters =
            RequiredParameters(s.parameters, SelectSeq(order, absent), rule, verb)]

\* `order` is the order in which the loop meets the names of required_args (a set)
_add_or_fix_required_parameters(rule, verb, swag, order) ==
    LET s == _get_parameters_section(swag)
    IN [s EXCEPT !.parameters = RequiredParameters(s.parameters, order, rule, verb)]

\* one turn of the loop of _fix_optional_parameters, were the required
\* names not passed over
OptionalParameter_of_any_name(item, rule, verb) ==
    LET in_ == IF Has(item, "name")
               THEN _get_param_location(item.name, rule, verb)
               ELSE IF Upper(verb) \in {"HEAD", "GET", "OPTIONS"}
                    THEN "query" ELSE "json"
    IN SetDefault(SetDefault(item, "required", FALSE), "in", in_)

\* one turn of the loop of _fix_optional_parameters
OptionalParameter(item, rule, verb) ==
    IF Has(item, "name") /\ item.name \in RequiredArgs(rule)
    THEN item
    ELSE LET in_ == IF Has(item, "name")
                    THEN _get_param_location(item.name, rule, verb)
                    ELSE IF Upper(verb) \in {"HEAD", "GET", "OPTIONS"}
                         THEN "query" ELSE "json"
         IN SetDefault(SetDefault(item, "required", FALSE), "in", in_)

_fix_optional_parameters(rule, verb, swag) ==
    LET s == _get_parameters_section(swag)
    IN [s EXCEPT !.parameters =
            [i \in 1..Len(s.parameters) |-> OptionalParameter(s.parameters[i], rule, verb)]]

\* _add_paging_parameters that passes the page name to both calls
_add_paging_parameters_page_twice(rule, verb, swag) ==
    IF rule.is_paged = "True"
    THEN LET s == SetDefault(swag, "parameters", <<>>)
             p1 == _add_parameter(s.parameters, PAGE_PARAM_NAME, Some("integer"), "query",
                                  [required |-> FALSE,
                                   description |-> Some(PageDescription)])
             p2 == _add_parameter(p1, PAGE_PARAM_NAME, Some("integer"), "query",
                                  [required |-> FALSE,
                                   description |-> Some(PageSizeDescription)])
         IN [s EXCEPT !.parameters = p2]
    ELSE swag

_add_paging_parameters(rule, verb, swag) ==
    IF rule.is_paged = "True"
    THEN LET s == _get_parameters_section(swag)
             p1 == _add_parameter(s.parameters, PAGE_PARAM_NAME, Some("integer"), "query",
                                  [required |-> FALSE,
                                   description |-> Some(PageDescription)])
             p2 == _add_parameter(p1, PAGE_SIZE_PARAM_NAME, Some("integer"), "query",
                                  [required |-> FALSE,
                                   description |-> Some(PageSizeDescription)])
         IN [s EXCEPT !.parameters = p2]
    ELSE swag

\* _add_locale_parameter, were the entry put first
_add_locale_parameter_first(rule, verb, swag) ==
    LET s == _get_parameters_section(swag)
    IN [s EXCEPT !.parameters =
            _add_parameter(s.parameters, LOCALE_PARAM_NAME, Some("string"), "query",
                           [required |-> FALSE, add_first |-> TRUE,
                            description |-> Some(LocaleDescription)])]

_add_locale_parameter(rule, verb, swag) ==
    LET s == _get_parameters_section(swag)
    IN [s EXCEPT !.parameters =
            _add_parameter(s.parameters, LOCALE_PARAM_NAME, Some("string"), "query",
                           [required |-> FALSE, description |-> Some(LocaleDescription)])]

_add_timezone_parameter(rule, verb, swag) ==
    LET s == _get_parameters_section(swag)
    IN [s EXCEPT !.parameters =
            _add_parameter(s.parameters, TIMEZONE_PARAM_NAME, Some("string"), "query",
                           [required |-> FALSE, description |-> Some(TimezoneDescription)])]

\* one {name: []} object per configured scheme, in the configuration's order
SecurityItems(definitions) == [i \in 1..Len(definitions) |-> (definitions[i] :> <<>>)]

\* _add_security_definitions, were a scheme the section names passed over
_add_security_definitions_unless_there(rule, verb, swag, definitions) ==
    IF rule.protected /\ definitions # None /\ Len(definitions[1]) > 0
    THEN LET s == _get_security_section(swag)
             there(item) == \E i \in 1..Len(s.security) : s.security[i] = item
         IN [s EXCEPT !.security =
                s.security \o SelectSeq(SecurityItems(definitions[1]),
                                          LAMBDA item : ~there(item))]
    ELSE swag

\* `definitions` is config 'swagger'/'securityDefinitions': None or the scheme names
_add_security_definitions(rule, verb, swag, definitions) ==
    IF rule.protected /\ definitions # None /\ Len(definitions[1]) > 0
    THEN LET s == _get_security_section(swag)
         IN [s EXCEPT !.security = s.security \o SecurityItems(definitions[1])]
    ELSE swag

ResponseIndex(responses, key) ==
    LET hits == {i \in 1..Len(responses) : responses[i].key = key}
    IN IF hits = {} THEN 0 ELSE CHOOSE i \in hits : TRUE

\* responses.setdefault(key, value) on an insertion-ordered dict
ResponseSetDefault(responses, key, value) ==
    IF ResponseIndex(responses, key) # 0 THEN responses
    ELSE Append(responses, [key |-> key, value |-> value])

\* _add_permission_denied_response without the test for permissions
_add_permission_denied_response_any(rule, verb, swag) ==
    IF rule.protected
    THEN LET s == SetDefault(swag, "responses", <<>>)
         IN [s EXCEPT !.responses =
                IF \E i \in 1..Len(s.responses) : s.responses[i].key = [int |-> 403]
                THEN s.responses
                ELSE Append(s.responses,
                            [key |-> [int |-> 403],
                             value |-> [description |->
                                "you do not have the required permissions to access this resource."]])]
    ELSE swag

_add_permission_denied_response(rule, verb, swag) ==
    IF rule.protected /\ Len(rule.permissions) > 0
    THEN LET s == _get_responses_section(swag)
         IN [s EXCEPT !.responses =
                ResponseSetDefault(s.responses, [int |-> FORBIDDEN],
                                   [description |-> PermissionDeniedDescription])]
    ELSE swag

_add_authentication_failed_response(rule, verb, swag) ==
    IF rule.protected
    THEN LET s == _get_responses_section(swag)
         IN [s EXCEPT !.responses =
                ResponseSetDefault(s.responses, [int |-> UNAUTHORIZED],
                                   [description |-> AuthenticationFailedDescription])]
    ELSE swag

\* the status code, were the route's own code not looked at
ResolvedStatusCode_of_verb(rule, verb) == get_status_code(Upper(verb))

\* lines 422-424: the status code the success response goes under
ResolvedStatusCode(rule, verb) ==
    IF rule.status_code = None THEN get_status_code(Upper(verb)) ELSE rule.status_code[1]

_add_successful_response(rule, verb, swag) ==
    LET s == _get_responses_section(swag)
    IN [s EXCEPT !.responses =
            ResponseSetDefault(s.responses, [int |-> ResolvedStatusCode(rule, verb)],
                               [description |-> SuccessDescription])]

\* swagger_services.get_tags(rule, method)
get_tags(rule, method) == IF Has(rule.tags, method) THEN rule.tags[method] ELSE <<>>

\* _add_tags, were the resolver's tags put before the author's
_add_tags_in_front(rule, verb, swag) ==
    LET tags == get_tags(rule, Upper(verb))
    IN IF Len(tags) > 0
       THEN LET s == _get_tags_section(swag)
            IN [s EXCEPT !.tags = tags \o s.tags]
       ELSE swag

_add_tags(rule, verb, swag) ==
    LET tags == get_tags(rule, Upper(verb))
    IN IF Len(tags) > 0
       THEN LET s == _get_tags_section(swag)
            IN [s EXCEPT !.tags = s.tags \o tags]
       ELSE swag

\* the parameter steps of _fix_metadata
ParameterMerge(rule, verb, swag, order) ==
    _add_timezone_parameter(rule, verb,
      _add_locale_parameter(rule, verb,
        _add_paging_parameters(rule, verb,
          _fix_optional_parameters(rule, verb,
            _add_or_fix_required_parameters(rule, verb, swag, order)))))

_fix_metadata(rule, verb, swag, order, definitions) ==
    _add_tags(rule, verb,
      _add_successful_response(rule, verb,
        _add_permission_denied_response(rule, verb,
          _add_authentication_failed_response(rule, verb,
            _add_security_definitions(rule, verb,
              ParameterMerge(rule, verb, swag, order), definitions)))))

(***************************************************************************)
(* The operation get_apispecs builds from a fixed fragment.                *)
(***************************************************************************)
Digit == <<"0", "1", "2", "3", "4", "5", "6", "7", "8", "9">>

\* str(n) for an int n >= 0
RECURSIVE Dec(_)
Dec(n) == IF n < 10 THEN Digit[n + 1] ELSE Dec(n \div 10) \o Digit[(n % 10) + 1]

\* str(key)
Str(key) == IF Has(key, "str") THEN key ELSE [str |-> Dec(key.int)]

\* {str(key): value for key, value in responses.items()}
RECURSIVE StrKeys(_, _)
StrKeys(responses, acc) ==
    IF responses = <<>> THEN acc
    ELSE LET k == Str(Head(responses).key)
             i == ResponseIndex(acc, k)
         IN StrKeys(Tail(responses),
                    IF i = 0 THEN Append(acc, [key |-> k, value |-> Head(responses).value])
                    ELSE [acc EXCEPT ![i].value = Head(responses).value])

\* flasgger.constants.OPTIONAL_FIELDS
optional_fields ==
    {"tags", "consumes", "produces", "schemes", "security", "deprecated",
     "operationId", "externalDocs"}

\* truthiness of swag.get(key) for the string-valued keys
Truthy(swag, key) == Has(swag, key) /\ swag[key] # ""

Operation(verb, swag) ==
    LET params0 == IF Has(swag, "parameters") THEN swag.parameters ELSE <<>>
        params == IF Has(swag, verb) /\ Len(params0) = 0
                     /\ verb \in {"get", "post", "put", "delete"}
                  THEN IF Has(swag[verb], "parameters") THEN swag[verb].parameters
                       ELSE <<>>
                  ELSE params0
        responses == IF Has(swag, "responses") THEN StrKeys(swag.responses, <<>>)
                     ELSE <<>>
        keys == {k \in {"summary", "description"} : Truthy(swag, k)}
                \cup {k \in optional_fields : Has(swag, k)}
        op0 == [k \in keys |-> swag[k]]
        op1 == IF Len(responses) > 0 THEN Put(op0, "responses", responses) ELSE op0
    IN IF Len(params) > 0 THEN Put(op1, "parameters", params) ELSE op1

(***************************************************************************)
(* Bounds and the inputs drawn within them.                                *)
(***************************************************************************)
MaxParams == 2

\* parameter objects as an author may document them
AuthorParams ==
    { [name |-> "id"],
      [name |-> "id", in |-> "query", type |-> "string", required |-> FALSE,
       format |-> "byte"],
      [name |-> "q"],
      [name |-> "q", required |-> TRUE, in |-> "body"],
      [name |-> "lang", in |-> "header", description |-> "author"],
      [name |-> "tz", required |-> TRUE],
      [name |-> "page", type |-> "string"],
      [name |-> "page_size", in |-> "header", required |-> TRUE, type |-> "string"] }

UniqueNames(parameters) ==
    \A i, j \in 1..Len(parameters) :
        (Has(parameters[i], "name") /\ Has(parameters[j], "name")
            /\ parameters[i].name = parameters[j].name) => i = j

ParamLists ==
    {ps \in UNION {[1..n -> AuthorParams] : n \in 0..MaxParams} : UniqueNames(ps)}

AuthorResponse(text) == [description |-> text]

\* responses sections as an author may document them: int keys (401:) and
\* str keys ('401':)
AuthorResponses ==
    { <<>>,
      <<[key |-> [int |-> 401], value |-> AuthorResponse("author 401")]>>,
      <<[key |-> [str |-> "401"], value |-> AuthorResponse("author 401")]>>,
      <<[key |-> [int |-> 403], value |-> AuthorResponse("author 403")]>>,
      <<[key |-> [str |-> "403"], value |-> AuthorResponse("author 403")]>>,
      <<[key |-> [int |-> 200], value |-> AuthorResponse("author 200")]>>,
      <<[key |-> [str |-> "200"], value |-> AuthorResponse("author 200")],
        [key |-> [int |-> 404], value |-> AuthorResponse("author 404")]>>,
      <<[key |-> [int |-> 202], value |-> AuthorResponse("author 202")],
        [key |-> [str |-> "201"], value |-> AuthorResponse("author 201")]>>,
      <<[key |-> [str |-> "202"], value |-> AuthorResponse("author 202")]>> }

ArgumentTypes == {"int", "float", "str", "UUID", "bool"}

Route(arguments, argument_type, required_arguments, is_paged, protected, permissions, status_code, tags) ==
    [arguments |-> arguments, argument_type |-> argument_type,
     required_arguments |-> required_arguments, is_paged |-> is_paged,
     protected |-> protected, permissions |-> permissions,
     status_code |-> status_code, tags |-> tags]

\* routes that differ in what decides the parameters
ParameterRoutes ==
    { Route(args, [a \in args |-> t], req, paged, FALSE, <<>>, None, <<>>) :
        args \in {{}, {"id"}}, t \in ArgumentTypes,
        req \in {{}, {"q"}, {"lang"}, {"id", "page"}, {"tz", "page_size"}},
        paged \in {"True", "False", "None"} }

\* routes that differ in what decides the responses, the security and the tags
ResponseRoutes ==
    { Route({"id"}, [a \in {"id"} |-> "int"], {}, "False", prot[1], prot[2], code, tags) :
        prot \in {<<FALSE, <<>>>>, <<TRUE, <<>>>>, <<TRUE, <<"admin">>>>},
        code \in {None, Some(202)},
        tags \in {<<>>, [GET |-> <<"users", "api">>]} }

ParameterFragments == {[parameters |-> ps] : ps \in ParamLists} \cup {<<>>}

ResponseFragments ==
    { sec @@ tg @@ rs :
        sec \in {<<>>, [security |-> <<[OAuth |-> <<"read">>]>>]},
        tg \in {<<>>, [tags |-> <<"author">>, summary |-> "an operation"]},
        rs \in {<<>>} \cup {[responses |-> r] : r \in AuthorResponses} }

SecurityDefinitions == {None, Some(<<>>), Some(<<"Bearer">>), Some(<<"Bearer", "ApiKey">>)}

Verbs == {"get", "post"}

(***************************************************************************)
(* The document assembly: get_apispecs and get_specs.                      *)
(* Strings the code scans (endpoints, route patterns, path prefixes) are   *)
(* sequences of one-character strings.                                     *)
(***************************************************************************)
\* str.startswith
StartsWith(s, prefix) == Len(prefix) <= Len(s) /\ SubSeq(s, 1, Len(prefix)) = prefix

\* str.endswith
EndsWith(s, suffix) ==
    Len(suffix) <= Len(s) /\ SubSeq(s, Len(s) - Len(suffix) + 1, Len(s)) = suffix

\* dict.update
Update(d, other) ==
    [k \in (DOMAIN d) \cup (DOMAIN other) |-> IF k \in DOMAIN other THEN other[k] ELSE d[k]]

\* the order in which one process iterates over a set: sets built alike are
\* met alike, the hash seed being fixed for the life of the process
IterationOrder(S) == CHOOSE s \in Orders(S) : TRUE

Lower(verb) ==
    CASE verb = "GET" -> "get"
      [] verb = "POST" -> "post"
      [] verb = "PUT" -> "put"
      [] verb = "DELETE" -> "delete"
      [] verb = "HEAD" -> "head"
      [] verb = "OPTIONS" -> "options"

\* config 'swagger'/'endpoint'
flasgger_endpoint == <<"s", "w">>

_is_flasgger_rule(r) == StartsWith(r.endpoint, flasgger_endpoint)

\* the registered routes, in the order of the url map
RouteTable ==
    << Route({"id"}, [a \in {"id"} |-> "int"], {}, "False", TRUE, <<"admin">>, None,
             [GET |-> <<"users">>])
         @@ [endpoint |-> <<"u", ".", "g">>,
             rule |-> <<"/", "u", "/", "<", "i", ":", "i", "d", ">">>,
             methods |-> {"GET", "HEAD", "DELETE"}],
       Route({}, <<>>, {"name"}, "True", FALSE, <<>>, None, <<>>)
         @@ [endpoint |-> <<"u", ".", "c">>,
             rule |-> <<"/", "u">>,
             methods |-> {"POST", "OPTIONS"}],
       Route({}, <<>>, {}, "False", FALSE, <<>>, None, <<>>)
         @@ [endpoint |-> <<"s", "w", ".", "a">>,
             rule |-> <<"/", "s", ".", "j">>,
             methods |-> {"GET", "HEAD"}] >>

DocumentedRoutes == {r \in 1..Len(RouteTable) : ~_is_flasgger_rule(RouteTable[r])}

\* the raw fragments a view's documentation may hold
Docstrings ==
    << [summary |-> "first"],
       [summary |-> "second",
        responses |-> <<[key |-> [str |-> "404"], value |-> AuthorResponse("author 404")]>>,
        definitions |-> [dict |-> [User |-> "object"]]],
       [summary |-> "third", definitions |-> [list |-> <<>>]] >>

\* a view function as lines 727-753 look at it: is_valid_method_view (727),
\* has_valid_dispatch_view_docs (730), its methods attribute (731-736), the
\* attributes of its view class that bear the name of a verb, each a
\* callable or None (737-738), whether lines 747-753 get a callable out of
\* the view function itself, and the documentation of what is documented
View(is_mv, dispatch_docs, methods, attrs, located, doc) ==
    [is_mv |-> is_mv, dispatch_docs |-> dispatch_docs, methods |-> methods,
     attrs |-> attrs, located |-> located, doc |-> doc]

\* a plain function, as the routes of the application register them
FunctionView(k) == View(FALSE, FALSE, None, <<>>, TRUE, k)

\* a method view that defines get alone
GetOnlyView == View(TRUE, FALSE, Some({"GET"}), [get |-> "callable"], TRUE, 1)

\* a class-based view with a documented dispatch_request and no methods
DispatchView == View(FALSE, TRUE, None, <<>>, TRUE, 1)

\* views of which lines 747-753 get None: one that is no method view, and a
\* method view without methods
UndetectableView == View(FALSE, FALSE, None, <<>>, FALSE, 1)

EmptyMethodView == View(TRUE, FALSE, None, <<>>, FALSE, 1)

\* a method view whose class sets post and delete to None
NoneAttributeView ==
    View(TRUE, FALSE, Some({"GET", "POST", "DELETE"}),
         [get |-> "callable", post |-> "None", delete |-> "None"], TRUE, 1)

ViewStates ==
    {FunctionView(k) : k \in 1..Len(Docstrings)}
      \cup {GetOnlyView, DispatchView, UndetectableView, EmptyMethodView,
            NoneAttributeView}

\* self.config: the configured specs, each with the routes its rule_filter admits
config ==
    [specs |-> << [endpoint |-> "apispec_1", rule_filter |-> {1, 2, 3}],
                  [endpoint |-> "apispec_2", rule_filter |-> {1, 3}] >>,
     securityDefinitions |-> Some(<<"Bearer">>)]

\* self.template
template == [swaggerUiPrefix |-> <<"/", "v">>, basePath |-> <<"/", "v", "/">>]

Endpoints == {"apispec_1", "apispec_2", "apispec_3"}

Workers == {1, 2}

\* how many times the code of a view is edited under the running application
MaxReloads == 1

(***************************************************************************)
(* State.                                                                  *)
(*   rule, verb, raw     a route, one of its verbs and the raw fragment    *)
(*                       extracted for them                                *)
(*   definitions         config 'swagger'/'securityDefinitions'            *)
(*   swag                the fragment as _fix_metadata leaves it           *)
(*   fixed               the fragment after the first _fix_metadata        *)
(*   operation           the operation get_apispecs builds from swag       *)
(*   stage               how far the fragment has got                      *)
(*                                                                         *)
(*   debug               app.debug                                         *)
(*   views               per documented route, the view the route table    *)
(*                       holds for it: what get_specs finds as its method  *)
(*   apispecs            self.apispecs: endpoint -> stored document        *)
(*   pc, ep, data, specs, idx                                              *)
(*                       per worker, a get_apispecs call in progress: its  *)
(*                       position, its endpoint argument and its locals    *)
(*   seen                per worker, the views its get_specs read          *)
(*   ret                 per worker, how its call ended                    *)
(*   reloads             the edits of view code made so far                *)
(*   segments, path_template, path_key                                     *)
(*                       a route pattern, written as its static texts and  *)
(*                       placeholders, the template it is normalised       *)
(*                       under, and the path key made of them              *)
(*   exc, reply          an exception that reached the error handlers and  *)
(*                       what the handler registered for it returned       *)
(*   validator, call_options, candidate, verdict                          *)
(*                       a StringValidator, the keywords and the value of  *)
(*                       a _validate call, and how the call ended          *)
(*   item, now, last_refresh                                               *)
(*                       a cache item, the clock, and the time the item    *)
(*                       was created or last refreshed                     *)
(*   call_args, returned the arguments of a call of a parameter helper     *)
(*                       and what it returned                              *)
(***************************************************************************)
VARIABLES rule, verb, raw, definitions, swag, fixed, operation, stage,
          debug, views, apispecs, pc, ep, data, specs, idx, seen, ret, reloads,
          segments, path_template, path_key,
          exc, reply,
          validator, call_options, candidate, verdict,
          item, now, last_refresh,
          call_args, returned

metaVars == <<rule, verb, raw, definitions, swag, fixed, operation, stage>>
appVars == <<debug, views, apispecs, pc, ep, data, specs, idx, seen, ret, reloads>>
pathVars == <<segments, path_template, path_key>>
\* what the swagger machine and the metadata steps never touch
handlerVars == <<exc, reply>>
validatorVars == <<validator, call_options, candidate, verdict>>
itemVars == <<item, now, last_refresh>>
callVars == <<call_args, returned>>
libVars == <<pathVars, handlerVars, validatorVars, itemVars, callVars>>
vars == <<metaVars, appVars, libVars>>

CacheHit_never(endpoint) == FALSE

CacheHit_in_any_mode(endpoint) == endpoint \in DOMAIN apispecs

\* line 468
CacheHit(endpoint) == ~debug /\ endpoint \in DOMAIN apispecs

FindSpec_or_first(endpoint) ==
    LET hits == {i \in 1..Len(config.specs) : config.specs[i].endpoint = endpoint}
    IN Some(config.specs[IF hits = {} THEN 1 ELSE CHOOSE i \in hits : TRUE])

\* lines 471-475: the spec configured for the endpoint, None without one
FindSpec(endpoint) ==
    LET hits == {i \in 1..Len(config.specs) : config.specs[i].endpoint = endpoint}
    IN IF hits = {} THEN None
       ELSE Some(config.specs[CHOOSE i \in hits : \A j \in hits : i <= j])

\* lines 481-551: the document before any route is added
NewData ==
    LET data0 == [paths |-> <<>>, definitions |-> <<>>, swagger |-> "2.0"]
        data1 == IF config.securityDefinitions # None
                    /\ Len(config.securityDefinitions[1]) > 0
                 THEN Put(data0, "securityDefinitions", config.securityDefinitions[1])
                 ELSE data0
    IN IF template # None THEN Update(data1, template) ELSE data1

ignore_verbs_none == {}

\* lines 555-557
ignore_verbs == {"HEAD", "OPTIONS"}

\* Swagger.get_url_mappings: the routes the rule filter admits, in table order
get_url_mappings(rule_filter) ==
    SelectSeq([r \in 1..Len(RouteTable) |-> r], LAMBDA r : r \in rule_filter)

\* lines 729-742: what the methods dict holds for a verb of the route, a
\* callable, None, or nothing ("skipped")
Handler_of_any_verb(view, v) ==
    IF view.methods # None /\ ~(~view.is_mv /\ view.dispatch_docs)
    THEN IF Has(view.attrs, Lower(v)) THEN view.attrs[Lower(v)] ELSE "skipped"
    ELSE IF view.located THEN "callable" ELSE "None"

Handler(view, v) ==
    LET via_endpoint == IF view.located THEN "callable" ELSE "None"
    IN IF ~view.is_mv /\ view.dispatch_docs
       THEN IF v \in (IF view.methods = None \/ view.methods[1] = {}
                      THEN {"GET"} ELSE view.methods[1])
            THEN via_endpoint ELSE "skipped"
       ELSE IF view.methods # None
       THEN IF v \in view.methods[1] /\ Has(view.attrs, Lower(v))
            THEN view.attrs[Lower(v)] ELSE "skipped"
       ELSE via_endpoint

\* lines 744-760 for a verb: it gets an operation, is passed over, or ends
\* get_specs, with the AttributeError of line 747 on a None in the methods
\* dict or the RuntimeError of line 758 on a None found later
Outcome(view, v) ==
    LET handler == Handler(view, v)
    IN CASE handler = "skipped" -> "skipped"
         [] handler = "callable" -> "operation"
         [] handler = "None" /\ ~(view.methods # None /\ ~(~view.is_mv /\ view.dispatch_docs))
              -> IF view.is_mv THEN "skipped" ELSE "RuntimeError"
         [] OTHER -> "AttributeError"

\* lines 727-818 for one route: the (verb, fixed fragment) pairs of its
\* documented verbs; view is what the route table holds for the route
RouteVerbs(r, view) ==
    LET documented == {Lower(v) : v \in {x \in RouteTable[r].methods \ ignore_verbs :
                                            Outcome(view, x) = "operation"}}
        order == IterationOrder(documented)
    IN [i \in 1..Len(order) |->
          [verb |-> order[i],
           swag |-> _fix_metadata(RouteTable[r], order[i], Docstrings[view.doc],
                                  IterationOrder(RequiredArgs(RouteTable[r])),
                                  config.securityDefinitions)]]

\* lines 755-760: the method of a verb of the route is None and the view is
\* no method view
CannotDetect(r, view) ==
    \E v \in RouteTable[r].methods \ ignore_verbs : Outcome(view, v) = "RuntimeError"

\* line 747: the methods dict holds None for a verb of the route
NoneHandler(r, view) ==
    \E v \in RouteTable[r].methods \ ignore_verbs : Outcome(view, v) = "AttributeError"

RECURSIVE get_specs(_, _)
\* the (route, verbs) list, or the error of the first route that has one
get_specs(rules, viewOf) ==
    IF rules = <<>> THEN [raised |-> FALSE, specs |-> <<>>]
    ELSE LET r == Head(rules)
             rest == get_specs(Tail(rules), viewOf)
         IN IF _is_flasgger_rule(RouteTable[r]) THEN rest
            ELSE IF CannotDetect(r, viewOf[r])
                 THEN [raised |-> TRUE, error |-> "RuntimeError", rule |-> r]
            ELSE IF NoneHandler(r, viewOf[r])
                 THEN [raised |-> TRUE, error |-> "AttributeError", rule |-> r]
            ELSE IF rest.raised THEN rest
            ELSE IF Len(RouteVerbs(r, viewOf[r])) > 0
                 THEN [raised |-> FALSE,
                       specs |-> <<[rule |-> r, verbs |-> RouteVerbs(r, viewOf[r])]>>
                                    \o rest.specs]
                 ELSE rest

\* lines 580-584: the dict folded into the definitions, or the error of the
\* test and the unpacking of a list that does not hold exactly one dict
DefinitionsOf(fragment) ==
    IF ~Has(fragment, "definitions") THEN [raised |-> FALSE, dict |-> <<>>]
    ELSE IF Has(fragment.definitions, "list")
         THEN IF Len(fragment.definitions.list) = 1
              THEN [raised |-> FALSE, dict |-> fragment.definitions.list[1]]
              ELSE [raised |-> TRUE]
         ELSE [raised |-> FALSE, dict |-> fragment.definitions.dict]

\* lines 577-670 for one route: its operations by verb and the definitions
\* its fragments fold in, or the error met on the way
RECURSIVE RouteOperations(_, _, _)
RouteOperations(verbs, operations, defs) ==
    IF verbs = <<>> THEN [raised |-> FALSE, operations |-> operations, definitions |-> defs]
    ELSE IF DefinitionsOf(Head(verbs).swag).raised THEN [raised |-> TRUE]
    ELSE RouteOperations(Tail(verbs),
                         Put(operations, Head(verbs).verb,
                             Operation(Head(verbs).verb, Head(verbs).swag)),
                         Update(defs, DefinitionsOf(Head(verbs).swag).dict))

\* the index of the ">" that closes the "<" at the head of s, 0 without one
Closing(s) ==
    LET brackets == {j \in 2..Len(s) : s[j] \in {"<", ">"}}
    IN IF brackets = {} THEN 0
       ELSE LET j == CHOOSE b \in brackets : \A c \in brackets : b <= c
            IN IF s[j] = ">" THEN j ELSE 0

\* what follows the last ":" of a placeholder's inside
ArgumentName_with_converter(inside) == inside

ArgumentName(inside) ==
    LET colons == {i \in 1..Len(inside) : inside[i] = ":"}
    IN IF colons = {} THEN inside
       ELSE SubSeq(inside, (CHOOSE c \in colons : \A d \in colons : d <= c) + 1,
                   Len(inside))

\* lines 695-697: every <converter:name> and <name> becomes {name}
RECURSIVE Placeholders(_)
Placeholders(s) ==
    IF s = <<>> THEN <<>>
    ELSE IF Head(s) = "<" /\ Closing(s) # 0
         THEN <<"{">> \o ArgumentName(SubSeq(s, 2, Closing(s) - 1)) \o <<"}">>
                \o Placeholders(SubSeq(s, Closing(s) + 1, Len(s)))
         ELSE <<Head(s)>> \o Placeholders(Tail(s))

PathKey_slash_kept(pattern, tmpl) ==
    LET prefix == IF tmpl # None /\ Has(tmpl, "swaggerUiPrefix")
                  THEN tmpl.swaggerUiPrefix ELSE <<>>
        srule == prefix \o pattern
        base_path == IF tmpl # None /\ Has(tmpl, "basePath") THEN tmpl.basePath ELSE <<>>
    IN Placeholders(IF base_path # <<>> /\ StartsWith(srule, base_path)
                    THEN SubSeq(srule, Len(base_path) + 1, Len(srule))
                    ELSE srule)

\* lines 672-697: the path key of a route pattern
PathKey(pattern, tmpl) ==
    LET prefix == IF tmpl # None /\ Has(tmpl, "swaggerUiPrefix")
                  THEN tmpl.swaggerUiPrefix ELSE <<>>
        srule == prefix \o pattern
        base0 == IF tmpl # None /\ Has(tmpl, "basePath") THEN tmpl.basePath ELSE <<>>
        base_path == IF EndsWith(base0, <<"/">>) THEN SubSeq(base0, 1, Len(base0) - 1)
                     ELSE base0
    IN Placeholders(IF base_path # <<>> /\ StartsWith(srule, base_path)
                    THEN SubSeq(srule, Len(base_path) + 1, Len(srule))
                    ELSE srule)

\* lines 699-705
AddOperations(paths, srule, operations) ==
    LET under == IF Has(paths, srule) THEN paths[srule] ELSE <<>>
    IN Put(paths, srule,
           [key \in (DOMAIN under) \cup (DOMAIN operations) |->
               IF key \in DOMAIN operations
               THEN IF key \in DOMAIN under THEN Update(under[key], operations[key])
                    ELSE operations[key]
               ELSE under[key]])

AddRoute_skips_failed(document, entry) ==
    LET got == RouteOperations(entry.verbs, <<>>, <<>>)
    IN [raised |-> FALSE,
        data |-> IF got.raised THEN document
                 ELSE [document EXCEPT
                         !.definitions = Update(@, got.definitions),
                         !.paths = IF DOMAIN got.operations # {}
                                   THEN AddOperations(@, PathKey(RouteTable[entry.rule].rule,
                                                                 template),
                                                      got.operations)
                                   ELSE @]]

\* one turn of the loop of line 577 on the document: the document with the
\* route's definitions and operations added, or the error met
AddRoute(document, entry) ==
    LET got == RouteOperations(entry.verbs, <<>>, <<>>)
    IN IF got.raised THEN [raised |-> TRUE]
       ELSE [raised |-> FALSE,
             data |->
               [document EXCEPT
                  !.definitions = Update(@, got.definitions),
                  !.paths = IF DOMAIN got.operations # {}
                            THEN AddOperations(@, PathKey(RouteTable[entry.rule].rule,
                                                          template),
                                               got.operations)
                            ELSE @]]

Stored_keeps_first(cache, endpoint, document) ==
    IF Has(cache, endpoint) THEN cache ELSE Put(cache, endpoint, document)

\* line 706
Stored(cache, endpoint, document) == Put(cache, endpoint, document)

NoCall == [kind |-> "none"]

AppAtRest ==
    /\ debug = FALSE
    /\ views = [r \in DocumentedRoutes |-> FunctionView(1)]
    /\ apispecs = <<>>
    /\ pc = [w \in Workers |-> "idle"]
    /\ ep = [w \in Workers |-> "apispec_1"]
    /\ data = [w \in Workers |-> <<>>]
    /\ specs = [w \in Workers |-> <<>>]
    /\ idx = [w \in Workers |-> 0]
    /\ seen = [w \in Workers |-> <<>>]
    /\ ret = [w \in Workers |-> NoCall]
    /\ reloads = 0

MetaAtRest ==
    /\ rule = RouteTable[1]
    /\ verb = "get"
    /\ raw = <<>>
    /\ definitions = None
    /\ swag = <<>>
    /\ fixed = <<>>
    /\ operation = <<>>
    /\ stage = "none"

PathAtRest ==
    /\ segments = <<>>
    /\ path_template = None
    /\ path_key = None

HandlersAtRest ==
    /\ exc = None
    /\ reply = None

ValidatorAtRest ==
    /\ validator = None
    /\ call_options = <<>>
    /\ candidate = ""
    /\ verdict = None

ItemAtRest ==
    /\ item = None
    /\ now = 0
    /\ last_refresh = 0

CallAtRest ==
    /\ call_args = None
    /\ returned = None

LibAtRest ==
    /\ PathAtRest
    /\ HandlersAtRest
    /\ ValidatorAtRest
    /\ ItemAtRest
    /\ CallAtRest

InitMeta ==
    /\ verb \in Verbs
    /\ \/ /\ rule \in ParameterRoutes
          /\ raw \in ParameterFragments
          /\ definitions = None
       \/ /\ rule \in ResponseRoutes
          /\ raw \in ResponseFragments
          /\ definitions \in SecurityDefinitions
    /\ swag = raw
    /\ fixed = raw
    /\ operation = <<>>
    /\ stage = "raw"
    /\ AppAtRest
    /\ LibAtRest

\* get_specs, line 817: the raw fragment goes through _fix_metadata
FixMetadata ==
    /\ stage = "raw"
    /\ \E order \in Orders(RequiredArgs(rule)) :
          /\ swag' = _fix_metadata(rule, verb, raw, order, definitions)
          /\ fixed' = swag'
    /\ stage' = "fixed"
    /\ UNCHANGED <<rule, verb, raw, definitions, operation>>
    /\ UNCHANGED <<appVars, libVars>>

\* the parameter steps of _fix_metadata, run again on the fixed fragment
MergeAgain ==
    /\ stage = "fixed"
    /\ \E order \in Orders(RequiredArgs(rule)) :
          swag' = ParameterMerge(rule, verb, swag, order)
    /\ stage' = "merged again"
    /\ UNCHANGED <<rule, verb, raw, definitions, fixed, operation>>
    /\ UNCHANGED <<appVars, libVars>>

\* get_apispecs, lines 625-670: the operation of the fixed fragment
BuildOperation ==
    /\ stage = "fixed"
    /\ operation' = Operation(verb, swag)
    /\ stage' = "operation"
    /\ UNCHANGED <<rule, verb, raw, definitions, swag, fixed>>
    /\ UNCHANGED <<appVars, libVars>>

NextMeta == FixMetadata \/ MergeAgain \/ BuildOperation

SpecMeta == InitMeta /\ [][NextMeta]_vars

(***************************************************************************)
(* get_apispecs as the workers of the application run it.  The steps of    *)
(* one call are the places where it reads or writes what the workers       *)
(* share: the cache test (468), the reading of the views (571) and the     *)
(* cache write (706); the loop of line 577 works on the call's own         *)
(* document, one route at a step.                                          *)
(***************************************************************************)
Init ==
    /\ debug \in BOOLEAN
    \* a debug run starts from the first documentation of every view and
    \* the edits make the others
    /\ views \in IF debug
                 THEN {[r \in DocumentedRoutes |-> FunctionView(1)]}
                 ELSE [DocumentedRoutes -> ViewStates]
    /\ apispecs = <<>>
    /\ pc = [w \in Workers |-> "idle"]
    /\ ep = [w \in Workers |-> "apispec_1"]
    /\ data = [w \in Workers |-> <<>>]
    /\ specs = [w \in Workers |-> <<>>]
    /\ idx = [w \in Workers |-> 0]
    /\ seen = [w \in Workers |-> <<>>]
    /\ ret = [w \in Workers |-> NoCall]
    /\ reloads = 0
    /\ MetaAtRest
    /\ LibAtRest

Returns(w, result) ==
    /\ pc' = [pc EXCEPT ![w] = "done"]
    /\ ret' = [ret EXCEPT ![w] = result]

\* lines 468-569: the cache test, the search for the spec, the new document
Call(w, endpoint) ==
    /\ pc[w] = "idle"
    /\ ep' = [ep EXCEPT ![w] = endpoint]
    /\ IF CacheHit(endpoint)
       THEN /\ Returns(w, [kind |-> "cached", doc |-> apispecs[endpoint]])
            /\ UNCHANGED data
       ELSE IF FindSpec(endpoint) = None
       THEN /\ Returns(w, [kind |-> "raised", error |-> "RuntimeError",
                             endpoint |-> endpoint])
            /\ UNCHANGED data
       ELSE /\ pc' = [pc EXCEPT ![w] = "get_specs"]
            /\ data' = [data EXCEPT ![w] = NewData]
            /\ UNCHANGED ret
    /\ UNCHANGED <<debug, views, apispecs, specs, idx, seen, reloads, metaVars, libVars>>

\* line 571: get_specs over the routes the spec's rule filter admits
GetSpecs(w) ==
    /\ pc[w] = "get_specs"
    /\ seen' = [seen EXCEPT ![w] = views]
    /\ LET got == get_specs(get_url_mappings(FindSpec(ep[w])[1].rule_filter), views)
       IN IF got.raised
          THEN /\ Returns(w, [kind |-> "raised", error |-> got.error, rule |-> got.rule])
               /\ UNCHANGED <<specs, idx>>
          ELSE /\ specs' = [specs EXCEPT ![w] = got.specs]
               /\ idx' = [idx EXCEPT ![w] = 1]
               /\ pc' = [pc EXCEPT ![w] = IF got.specs = <<>> THEN "store" ELSE "rules"]
               /\ UNCHANGED ret
    /\ UNCHANGED <<debug, views, apispecs, ep, data, reloads, metaVars, libVars>>

\* lines 577-705 for the next route of the list
AddNextRoute(w) ==
    /\ pc[w] = "rules"
    /\ LET got == AddRoute(data[w], specs[w][idx[w]])
       IN IF got.raised
          THEN /\ Returns(w, [kind |-> "raised", error |-> "IndexError"])
               /\ UNCHANGED <<data, idx>>
          ELSE /\ data' = [data EXCEPT ![w] = got.data]
               /\ idx' = [idx EXCEPT ![w] = @ + 1]
               /\ pc' = [pc EXCEPT ![w] = IF idx[w] = Len(specs[w]) THEN "store"
                                          ELSE "rules"]
               /\ UNCHANGED ret
    /\ UNCHANGED <<debug, views, apispecs, ep, specs, seen, reloads, metaVars, libVars>>

\* lines 706-707
Store(w) ==
    /\ pc[w] = "store"
    /\ apispecs' = Stored(apispecs, ep[w], data[w])
    /\ Returns(w, [kind |-> "built", doc |-> data[w]])
    /\ UNCHANGED <<debug, views, ep, data, specs, idx, seen, reloads, metaVars, libVars>>

\* the caller takes the result; the call's locals are gone
Finish(w) ==
    /\ pc[w] = "done"
    /\ pc' = [pc EXCEPT ![w] = "idle"]
    /\ ep' = [ep EXCEPT ![w] = "apispec_1"]
    /\ ret' = [ret EXCEPT ![w] = NoCall]
    /\ data' = [data EXCEPT ![w] = <<>>]
    /\ specs' = [specs EXCEPT ![w] = <<>>]
    /\ idx' = [idx EXCEPT ![w] = 0]
    /\ seen' = [seen EXCEPT ![w] = <<>>]
    /\ UNCHANGED <<debug, views, apispecs, reloads, metaVars, libVars>>

\* live reload: in debug mode the documentation of a view changes under the
\* running application
Reload(r, k) ==
    /\ debug
    /\ reloads < MaxReloads
    /\ views[r].doc # k
    /\ views' = [views EXCEPT ![r].doc = k]
    /\ reloads' = reloads + 1
    /\ UNCHANGED <<debug, apispecs, pc, ep, data, specs, idx, seen, ret, metaVars, libVars>>

Next ==
    \/ \E w \in Workers, endpoint \in Endpoints : Call(w, endpoint)
    \/ \E w \in Workers : GetSpecs(w)
    \/ \E w \in Workers : AddNextRoute(w)
    \/ \E w \in Workers : Store(w)
    \/ \E w \in Workers : Finish(w)
    \/ \E r \in DocumentedRoutes, k \in 1..Len(Docstrings) : Reload(r, k)

Spec == Init /\ [][Next]_vars

(***************************************************************************)
(* Properties of the document cache and of the assembly as a whole          *)
(* (get_apispecs, lines 456-707).                                          *)
(***************************************************************************)
\* the routes of an endpoint's spec that get a place in its document, given
\* what get_specs finds for each route
VerbsOf(r, viewOf) ==
    {Lower(v) : v \in {x \in RouteTable[r].methods \ {"HEAD", "OPTIONS"} :
                         Outcome(viewOf[r], x) = "operation"}}

DocumentedBy(e, viewOf) ==
    {r \in DocumentedRoutes \cap FindSpec(e)[1].rule_filter : VerbsOf(r, viewOf) # {}}

\* an assembly over these views ends in an error: the method of a route's
\* verb is None, or a fragment's definitions are a list that does not hold
\* exactly one dict
Raises(e, viewOf) ==
    \E r \in DocumentedRoutes \cap FindSpec(e)[1].rule_filter :
       \/ \E v \in RouteTable[r].methods \ {"HEAD", "OPTIONS"} :
             Outcome(viewOf[r], v) \in {"RuntimeError", "AttributeError"}
       \/ /\ r \in DocumentedBy(e, viewOf)
          /\ Has(Docstrings[viewOf[r].doc], "definitions")
          /\ Has(Docstrings[viewOf[r].doc].definitions, "list")
          /\ Len(Docstrings[viewOf[r].doc].definitions.list) # 1

\* the operation a route's verb gets in a document
OperationOf(r, v, viewOf) ==
    Operation(v, _fix_metadata(RouteTable[r], v, Docstrings[viewOf[r].doc],
                               IterationOrder(RequiredArgs(RouteTable[r])),
                               config.securityDefinitions))

\* the definitions a route's fragment folds into a document
FoldedBy(r, viewOf) ==
    LET fragment == Docstrings[viewOf[r].doc]
    IN IF Has(fragment, "definitions") /\ Has(fragment.definitions, "dict")
       THEN fragment.definitions.dict
       ELSE <<>>

\* the whole document of the endpoint over these views: every documented
\* route under its path key (the routes of the table have path keys of their
\* own), every documented verb under the route with its operation, every
\* folded definition (no two fragments define one name), and nothing else
CompleteDocument(e, viewOf) ==
    LET routes == DocumentedBy(e, viewOf)
        key(r) == PathKey(RouteTable[r].rule, template)
    IN [swagger |-> "2.0",
        securityDefinitions |-> config.securityDefinitions[1],
        swaggerUiPrefix |-> template.swaggerUiPrefix,
        basePath |-> template.basePath,
        paths |-> [k \in {key(r) : r \in routes} |->
                     LET r == CHOOSE x \in routes : key(x) = k
                     IN [v \in VerbsOf(r, viewOf) |-> OperationOf(r, v, viewOf)]],
        definitions |-> [k \in UNION {DOMAIN FoldedBy(r, viewOf) : r \in routes} |->
                           LET r == CHOOSE x \in routes : k \in DOMAIN FoldedBy(x, viewOf)
                           IN FoldedBy(r, viewOf)[k]]]

\* doc is the whole document of the endpoint over these views, and an
\* assembly over them raises no error
IsComplete(doc, e, viewOf) == ~Raises(e, viewOf) /\ doc = CompleteDocument(e, viewOf)

Built(w) == ret[w].kind = "built"

\* worker w leaves "idle": it calls get_apispecs
Calls(w) == pc[w] = "idle" /\ pc'[w] # "idle"

\* C1: in non-debug mode a stored entry stays as it is, and a call for an
\* endpoint that has a stored entry returns that entry at once: it goes
\* through no assembly step and builds no document of its own.
C1_Memoized ==
    [][~debug =>
         /\ \A e \in DOMAIN apispecs : Has(apispecs', e) /\ apispecs'[e] = apispecs[e]
         /\ \A w \in Workers :
               (Calls(w) /\ Has(apispecs, ep'[w])) =>
                   /\ pc'[w] = "done"
                   /\ ret'[w] = [kind |-> "cached", doc |-> apispecs[ep'[w]]]
                   /\ data'[w] = <<>> /\ specs'[w] = <<>> /\ seen'[w] = <<>>
                   /\ apispecs' = apispecs]_vars

\* a call answered from the cache while the other worker is idle
C1_Witness ==
    /\ ~debug
    /\ pc[1] = "done"
    /\ ret[1].kind = "cached"
    /\ ret[1].doc = apispecs[ep[1]]
    /\ IsComplete(ret[1].doc, ep[1], views)
    /\ pc[2] = "idle"

\* C2: in debug mode a call for a configured endpoint goes into the assembly
\* whether or not the endpoint has a stored entry, its get_specs reads the
\* views as they are then, no call is answered from the cache, and the
\* document a call returns is the whole document over the views it read.
C2_DebugRebuilds ==
    /\ [](debug =>
            \A w \in Workers :
               /\ ret[w].kind # "cached"
               /\ Built(w) => IsComplete(ret[w].doc, ep[w], seen[w]))
    /\ [][debug =>
            \A w \in Workers :
               /\ (Calls(w) /\ FindSpec(ep'[w]) # None) =>
                     pc'[w] = "get_specs" /\ ret'[w] = NoCall
               /\ (pc[w] = "get_specs" /\ pc'[w] # "get_specs") => seen'[w] = views]_vars

\* two calls for one endpoint with an edit of a view between them: the first
\* returned the document of the views before the edit, the second returns and
\* stores the document of the views after it, and the two differ
C2_Witness ==
    /\ debug
    /\ reloads = 1
    /\ Built(1) /\ Built(2)
    /\ ep[1] = ep[2]
    /\ seen[2] # views
    /\ seen[1] = views
    /\ IsComplete(ret[1].doc, ep[1], views)
    /\ ret[1].doc # ret[2].doc
    /\ apispecs[ep[1]] = ret[1].doc

\* C3: a document a call built and returns is the whole document of its
\* endpoint over the views the call read, which raise no error, and so is
\* a document returned from the cache in non-debug mode, as every stored
\* entry is there; the cache changes only in the step that ends a call with
\* its built document, only in that call's endpoint, and what is written is
\* that whole document; a step in which a call raises leaves the cache as it
\* was.
C3_AllOrNothing ==
    /\ [](/\ \A w \in Workers :
                /\ Built(w) => IsComplete(ret[w].doc, ep[w], seen[w])
                /\ ret[w].kind = "cached" => IsComplete(ret[w].doc, ep[w], views)
          /\ ~debug => \A e \in DOMAIN apispecs : IsComplete(apispecs[e], e, views))
    /\ [][/\ apispecs' # apispecs =>
               \E w \in Workers :
                  /\ ~Built(w) /\ ret'[w].kind = "built"
                  /\ DOMAIN apispecs' = DOMAIN apispecs \cup {ep[w]}
                  /\ apispecs'[ep[w]] = ret'[w].doc
                  /\ IsComplete(apispecs'[ep[w]], ep[w], seen[w])
                  /\ \A e \in DOMAIN apispecs \ {ep[w]} : apispecs'[e] = apispecs[e]
          /\ \A w \in Workers :
                (ret[w].kind # "raised" /\ ret'[w].kind = "raised") =>
                    apispecs' = apispecs]_vars

\* a call that raised in the loop with one route already in its document,
\* and nothing stored for its endpoint
C3_Witness ==
    /\ ret[1].kind = "raised"
    /\ ret[1].error = "IndexError"
    /\ DOMAIN data[1].paths # {}
    /\ ~Has(apispecs, ep[1])

\* C4: when two calls for one endpoint have both built a document, each
\* document is the whole document over the views its call read, the stored
\* entry is the document of one of the two, and in non-debug mode the two
\* documents and the stored entry are one document: the whole document over
\* the views, which one call alone produces.
C4_Race ==
    \A w1, w2 \in Workers :
       (w1 # w2 /\ Built(w1) /\ Built(w2) /\ ep[w1] = ep[w2]) =>
           /\ IsComplete(ret[w1].doc, ep[w1], seen[w1])
           /\ IsComplete(ret[w2].doc, ep[w2], seen[w2])
           /\ Has(apispecs, ep[w1])
           /\ apispecs[ep[w1]] \in {ret[w1].doc, ret[w2].doc}
           /\ ~debug => /\ ret[w1].doc = ret[w2].doc
                        /\ apispecs[ep[w1]] = ret[w1].doc
                        /\ IsComplete(apispecs[ep[w1]], ep[w1], views)

\* in non-debug mode both calls passed the cache test before either stored:
\* both built the document of an endpoint with two documented routes
C4_Witness ==
    /\ ~debug
    /\ Built(1) /\ Built(2)
    /\ ep[1] = ep[2]
    /\ Cardinality(DOMAIN ret[1].doc.paths) = 2
    /\ apispecs[ep[1]] = ret[2].doc

(***************************************************************************)
(* Properties of the parameter merge (_fix_metadata, lines 228-246).       *)
(***************************************************************************)
RawParams == IF Has(raw, "parameters") THEN raw.parameters ELSE <<>>

NamesOf(parameters) ==
    {parameters[i].name : i \in {j \in 1..Len(parameters) : Has(parameters[j], "name")}}

Entries(parameters, name) ==
    {i \in 1..Len(parameters) : Has(parameters[i], "name") /\ parameters[i].name = name}

\* C5: when the names of the raw fragment's parameters are unique, no two
\* parameters of the fixed fragment have the same name, every documented name
\* is still there, and each entry beyond the raw ones carries a name the raw
\* fragment did not have.
C5_NamesStayUnique ==
    (stage = "fixed" /\ UniqueNames(RawParams)) =>
        /\ UniqueNames(fixed.parameters)
        /\ NamesOf(RawParams) \subseteq NamesOf(fixed.parameters)
        /\ Len(fixed.parameters) - Len(RawParams)
             = Cardinality(NamesOf(fixed.parameters) \ NamesOf(RawParams))

\* a fixed fragment whose raw parameters already held a required name, the
\* locale name and, on a paged route, the page name, and that gained entries
C5_Witness ==
    /\ stage = "fixed"
    /\ Len(RawParams) = 2
    /\ NamesOf(RawParams) \cap RequiredArgs(rule) # {}
    /\ NamesOf(RawParams) \cap {LOCALE_PARAM_NAME, PAGE_PARAM_NAME} # {}
    /\ rule.is_paged = "True"
    /\ Len(fixed.parameters) > Len(RawParams) + 2

\* C6: a second run of the parameter steps on the fixed fragment creates no
\* entry: same length, same names, one locale entry and one timezone entry.
C6_SecondPassAddsNothing ==
    stage = "merged again" =>
        /\ Len(swag.parameters) = Len(fixed.parameters)
        /\ NamesOf(swag.parameters) = NamesOf(fixed.parameters)
        /\ Cardinality(Entries(swag.parameters, LOCALE_PARAM_NAME)) = 1
        /\ Cardinality(Entries(swag.parameters, TIMEZONE_PARAM_NAME)) = 1

\* a second pass over a fragment to which the first pass added required,
\* paging, locale and timezone entries
C6_Witness ==
    /\ stage = "merged again"
    /\ rule.is_paged = "True"
    /\ Cardinality(RequiredArgs(rule)) = 2
    /\ RawParams = <<>>
    /\ Len(fixed.parameters) = 6
    /\ Len(swag.parameters) = 6

IsRequired(p) == Has(p, "required") /\ p.required = TRUE

IntegerIdRoute == "id" \in rule.arguments /\ rule.argument_type["id"] = "int"

\* the raw fragment's own entry under `name`: a set with at most one element
RawEntries(name) == {RawParams[i] : i \in Entries(RawParams, name)}

\* C7 as claimed: on a route whose path argument id is an integer, whatever the
\* raw fragment, exactly one entry is named id, it has required=true, in="path"
\* and type="integer", and it precedes every parameter that is not required.
C7_AsClaimed ==
    (stage = "fixed" /\ IntegerIdRoute) =>
        /\ Cardinality(Entries(fixed.parameters, "id")) = 1
        /\ \A i \in Entries(fixed.parameters, "id") :
              /\ IsRequired(fixed.parameters[i])
              /\ Has(fixed.parameters[i], "in") /\ fixed.parameters[i].in = "path"
              /\ Has(fixed.parameters[i], "type") /\ fixed.parameters[i].type = "integer"
              /\ \A j \in 1..Len(fixed.parameters) :
                    ~IsRequired(fixed.parameters[j]) => i < j

\* C7 amended: exactly one entry is named id and it has required=true; its
\* `in` is "path" and its `type` "integer" unless the raw fragment's own id entry
\* gave that key, whose value is then kept; when the raw fragment had no id
\* entry, the created entry precedes every parameter that is not required.
C7_IdParameter ==
    (stage = "fixed" /\ IntegerIdRoute) =>
        /\ Cardinality(Entries(fixed.parameters, "id")) = 1
        /\ \A i \in Entries(fixed.parameters, "id") :
              LET p == fixed.parameters[i]
              IN /\ IsRequired(p)
                 /\ Has(p, "in") /\ Has(p, "type")
                 /\ \A r \in RawEntries("id") :
                       /\ p.in = IF Has(r, "in") THEN r.in ELSE "path"
                       /\ p.type = IF Has(r, "type") THEN r.type ELSE "integer"
                 /\ RawEntries("id") = {} =>
                       /\ p.in = "path"
                       /\ p.type = "integer"
                       /\ \A j \in 1..Len(fixed.parameters) :
                             ~IsRequired(fixed.parameters[j]) => i < j

\* an integer id created in front of a documented, optional parameter, next to
\* a second required name
C7_Witness ==
    /\ stage = "fixed"
    /\ IntegerIdRoute
    /\ rule.required_arguments = {"id", "page"}
    /\ RawEntries("id") = {}
    /\ Len(RawParams) = 2
    /\ \E j \in 1..Len(fixed.parameters) : ~IsRequired(fixed.parameters[j])

PagingNames == {PAGE_PARAM_NAME, PAGE_SIZE_PARAM_NAME}

IsPagingParameter(p) ==
    /\ Has(p, "required") /\ p.required = FALSE
    /\ Has(p, "in") /\ p.in = "query"
    /\ Has(p, "type") /\ p.type = "integer"

\* C8 as claimed: on a paged route the fixed fragment has, whatever the raw
\* fragment declared, a page and a page-size parameter, each with
\* required=false, in="query" and type="integer"; on a route that is not paged
\* no paging parameter is added.
C8_AsClaimed ==
    stage = "fixed" =>
        /\ rule.is_paged = "True" =>
              \A n \in PagingNames :
                 \E i \in Entries(fixed.parameters, n) :
                    IsPagingParameter(fixed.parameters[i])
        /\ rule.is_paged # "True" =>
              NamesOf(fixed.parameters) \cap PagingNames
                 \subseteq NamesOf(RawParams) \cup RequiredArgs(rule)

\* C8 amended: on a paged route the fixed fragment has exactly one parameter
\* under the page name and one under the page-size name; the parameter is
\* created with required=false, in="query" and type="integer" when the raw
\* fragment documents none of that name and the name is no required argument
\* of the route, whatever else the raw fragment declared; a parameter the raw
\* fragment documents under that name keeps every key the author wrote except
\* `required` on a required argument. On a route that is not paged no paging
\* parameter is added.
C8_PagingParameters ==
    stage = "fixed" =>
        /\ rule.is_paged = "True" =>
              \A n \in PagingNames :
                 /\ Cardinality(Entries(fixed.parameters, n)) = 1
                 /\ \A i \in Entries(fixed.parameters, n) :
                       /\ (RawEntries(n) = {} /\ n \notin RequiredArgs(rule)) =>
                             IsPagingParameter(fixed.parameters[i])
                       /\ \A r \in RawEntries(n) :
                             \A k \in DOMAIN r :
                                (k # "required" \/ n \notin RequiredArgs(rule)) =>
                                   fixed.parameters[i][k] = r[k]
        /\ rule.is_paged # "True" =>
              NamesOf(fixed.parameters) \cap PagingNames
                 \subseteq NamesOf(RawParams) \cup RequiredArgs(rule)

\* a paged route whose raw fragment documents the page parameter itself and
\* other parameters, and gets the page-size parameter created
C8_Witness ==
    /\ stage = "fixed"
    /\ rule.is_paged = "True"
    /\ verb = "post"
    /\ RawEntries(PAGE_PARAM_NAME) # {}
    /\ RawEntries(PAGE_SIZE_PARAM_NAME) = {}
    /\ Len(RawParams) = 2
    /\ \E i \in Entries(fixed.parameters, PAGE_SIZE_PARAM_NAME) :
          IsPagingParameter(fixed.parameters[i])

(***************************************************************************)
(* Properties of the injected responses, read in the final operation.      *)
(***************************************************************************)
RawResponses == IF Has(raw, "responses") THEN raw.responses ELSE <<>>

\* the raw fragment's entries for a status code, written as an int or a str
RawResponsesFor(code) ==
    {RawResponses[i].value :
        i \in {j \in 1..Len(RawResponses) : Str(RawResponses[j].key) = [str |-> Dec(code)]}}

\* the final operation's entries for a status code: at most one
FinalResponsesFor(code) ==
    IF Has(operation, "responses")
    THEN {operation.responses[i].value :
             i \in {j \in 1..Len(operation.responses) :
                       operation.responses[j].key = [str |-> Dec(code)]}}
    ELSE {}

Described(response) == Has(response, "description") /\ response.description # ""

C10_AuthorResponseKept ==
    stage = "operation" =>
        \A code \in {UNAUTHORIZED, FORBIDDEN, ResolvedStatusCode(rule, verb)} :
           RawResponsesFor(code) # {} => FinalResponsesFor(code) = RawResponsesFor(code)

(***************************************************************************)
(* The path key on its own (lines 672-697): route patterns written as the  *)
(* URL map writes them, static text and placeholders <name> or             *)
(* <converter:name>, under templates with and without a swaggerUiPrefix   *)
(* and a basePath.                                                         *)
(***************************************************************************)
MaxSegments == 3

\* static text of a pattern holds no angle bracket
Statics == {<<"/", "u", "/">>, <<"/">>}

\* a converter may carry arguments, and these a colon
ArgumentPlaceholders ==
    { [converter |-> None, name |-> <<"i", "d">>],
      [converter |-> Some(<<"i">>), name |-> <<"i", "d">>],
      [converter |-> Some(<<"r", "(", ":", ")">>), name |-> <<"i", "d">>],
      [converter |-> None, name |-> <<"s">>] }

Segments == {[static |-> t] : t \in Statics} \cup ArgumentPlaceholders

SegmentLists == UNION {[1..n -> Segments] : n \in 1..MaxSegments}

\* a segment as the pattern writes it
Written(seg) ==
    IF Has(seg, "static") THEN seg.static
    ELSE <<"<">> \o (IF seg.converter = None THEN <<>> ELSE seg.converter[1] \o <<":">>)
                \o seg.name \o <<">">>

RECURSIVE RoutePattern(_)
RoutePattern(segs) ==
    IF segs = <<>> THEN <<>> ELSE Written(Head(segs)) \o RoutePattern(Tail(segs))

Prefixes == {<<"/", "v">>}

BasePaths ==
    { <<>>, <<"/">>, <<"/", "v">>, <<"/", "v", "/">>, <<"/", "v", "/", "/">>,
      <<"/", "u">>, <<"/", "x">> }

Templates ==
    {None} \cup
    { p @@ b : p \in {<<>>} \cup {[swaggerUiPrefix |-> x] : x \in Prefixes},
               b \in {<<>>} \cup {[basePath |-> x] : x \in BasePaths} }

InitPath ==
    /\ segments \in SegmentLists
    /\ path_template \in Templates
    /\ path_key = None
    /\ MetaAtRest
    /\ AppAtRest
    /\ HandlersAtRest
    /\ ValidatorAtRest
    /\ ItemAtRest
    /\ CallAtRest

\* lines 672-697 for one route
NormalisePath ==
    /\ path_key = None
    /\ path_key' = Some(PathKey(RoutePattern(segments), path_template))
    /\ UNCHANGED <<segments, path_template>>
    /\ UNCHANGED <<metaVars, appVars, handlerVars, validatorVars, itemVars, callVars>>

NextPath == NormalisePath

SpecPath == InitPath /\ [][NextPath]_vars

\* a segment as the document is to show it
Braced(seg) ==
    IF Has(seg, "static") THEN seg.static ELSE <<"{">> \o seg.name \o <<"}">>

RECURSIVE BracedPattern(_)
BracedPattern(segs) ==
    IF segs = <<>> THEN <<>> ELSE Braced(Head(segs)) \o BracedPattern(Tail(segs))

PrefixOf(t) == IF t # None /\ Has(t, "swaggerUiPrefix") THEN t.swaggerUiPrefix ELSE <<>>

\* the base path to take off, "" when there is none
BaseOf(t) ==
    IF t # None /\ Has(t, "basePath")
    THEN IF t.basePath # <<>> /\ t.basePath[Len(t.basePath)] = "/"
         THEN SubSeq(t.basePath, 1, Len(t.basePath) - 1) ELSE t.basePath
    ELSE <<>>

\* C11: path normalisation turns every placeholder of the pattern, <name>
\* or <converter:name>, into {name} and keeps every other character, so
\* without a base path the key is the prefix and the pattern so rewritten,
\* and no path key holds an angle bracket
C11_PlaceholdersBraced ==
    path_key # None =>
        /\ BaseOf(path_template) = <<>> =>
              path_key[1] = PrefixOf(path_template) \o BracedPattern(segments)
        /\ \A i \in 1..Len(path_key[1]) : path_key[1][i] \notin {"<", ">"}

\* /u/<i:id><s> becomes /u/{id}{s}
C11_Witness ==
    /\ segments = << [static |-> <<"/", "u", "/">>],
                     [converter |-> Some(<<"i">>), name |-> <<"i", "d">>],
                     [converter |-> None, name |-> <<"s">>] >>
    /\ path_template = None
    /\ path_key = Some(<<"/", "u", "/", "{", "i", "d", "}", "{", "s", "}">>)

\* C12: the prefix is put before the pattern; the base path, less one
\* trailing slash, is taken off the front when the prefixed pattern starts
\* with it, and otherwise (or without a base path) the prefixed pattern is
\* kept whole
C12_BasePathStripped ==
    path_key # None =>
        LET whole == PrefixOf(path_template) \o BracedPattern(segments)
            base == BaseOf(path_template)
        IN path_key[1] =
              IF base # <<>> /\ StartsWith(PrefixOf(path_template) \o RoutePattern(segments), base)
              THEN SubSeq(whole, Len(base) + 1, Len(whole))
              ELSE whole

\* prefix /v, base path /v/ and pattern /u/<id> give /u/{id}
C12_Witness ==
    /\ segments = << [static |-> <<"/", "u", "/">>],
                     [converter |-> None, name |-> <<"i", "d">>] >>
    /\ path_template = [swaggerUiPrefix |-> <<"/", "v">>, basePath |-> <<"/", "v", "/">>]
    /\ path_key = Some(<<"/", "u", "/", "{", "i", "d", "}">>)

(***************************************************************************)
(* Errors of the assembly and the verbs it documents (lines 444-479 and    *)
(* 722-760), checked on the worker machine.                                *)
(***************************************************************************)
ConfiguredEndpoints == {config.specs[i].endpoint : i \in 1..Len(config.specs)}

\* C13: a call for an endpoint that no configured spec has ends, in the
\* step that makes it, with a RuntimeError that names the endpoint; the call
\* assembles nothing and the cache stays as it was, and never holds an
\* entry for such an endpoint
C13_UnknownEndpoint ==
    [][\A w \in Workers :
          /\ (pc[w] = "idle" /\ pc'[w] # "idle" /\ ep'[w] \notin ConfiguredEndpoints) =>
                /\ pc'[w] = "done"
                /\ ret'[w] = [kind |-> "raised", error |-> "RuntimeError",
                              endpoint |-> ep'[w]]
                /\ apispecs' = apispecs
                /\ data'[w] = <<>> /\ specs'[w] = <<>> /\ seen'[w] = <<>>
          /\ DOMAIN apispecs \subseteq ConfiguredEndpoints]_vars

\* a call for apispec_3 has raised, after the document of apispec_1 was stored
C13_Witness ==
    /\ ret[1] = [kind |-> "raised", error |-> "RuntimeError", endpoint |-> "apispec_3"]
    /\ Has(apispecs, "apispec_1")
    /\ ~Has(apispecs, "apispec_3")

\* the routes a call for endpoint e is to document: those the rule filter
\* admits, less the routes of the documentation subsystem
RoutesOf(e) ==
    {r \in FindSpec(e)[1].rule_filter :
        ~StartsWith(RouteTable[r].endpoint, <<"s", "w">>)}

DeclaredVerbs(r) == RouteTable[r].methods \ {"HEAD", "OPTIONS"}

KeyOf(r) == PathKey(RouteTable[r].rule, template)

\* worker w is past get_specs, which read the views seen[w]
PastGetSpecs(w) == pc[w] \in {"rules", "store", "done"} /\ seen[w] # <<>>

\* a method view that defines no methods
DefinesNoMethods(view) == view.is_mv /\ view.methods = None

\* C14 (as claimed): when a route has a non-ignored verb for which no
\* callable is located, get_specs ends with a RuntimeError that names the
\* route, unless the view is a method view that defines no methods; so in a
\* built document every non-ignored verb of every documented route has an
\* operation, unless its view is such a method view
C14_HandlerOrRuntimeError ==
    \A w \in Workers :
       PastGetSpecs(w) =>
          LET missing == {r \in RoutesOf(ep[w]) :
                            /\ ~DefinesNoMethods(seen[w][r])
                            /\ \E v \in DeclaredVerbs(r) :
                                  Handler(seen[w][r], v) # "callable"}
          IN /\ missing # {} =>
                   /\ ret[w].kind = "raised"
                   /\ ret[w].error = "RuntimeError"
                   /\ Has(ret[w], "rule") /\ ret[w].rule \in missing
             /\ Built(w) =>
                   \A r \in RoutesOf(ep[w]) :
                      \A v \in DeclaredVerbs(r) :
                         \/ DefinesNoMethods(seen[w][r])
                         \/ /\ Has(ret[w].doc.paths, KeyOf(r))
                            /\ Has(ret[w].doc.paths[KeyOf(r)], Lower(v))

\* the built document has no operation of a route of the documentation
\* subsystem and none of a verb of the ignore list
NothingIgnored(doc) ==
    /\ \A r \in 1..Len(RouteTable) :
          StartsWith(RouteTable[r].endpoint, <<"s", "w">>) => ~Has(doc.paths, KeyOf(r))
    /\ \A k \in DOMAIN doc.paths : DOMAIN doc.paths[k] \cap {"head", "options"} = {}

MaxArgs == 2

\* ServerErrorResponseCodeEnum.INTERNAL_SERVER_ERROR.value
INTERNAL_SERVER_ERROR == 500

\* DTO(code=..., message=...)
DTO(code, message) == [code |-> code, message |-> message]

\* repr of an argument of an exception
Repr(arg) == IF Has(arg, "str") THEN "'" \o arg.str \o "'" ELSE Dec(arg.int)

RECURSIVE Joined(_)
Joined(args) ==
    IF Len(args) = 1 THEN Repr(args[1]) ELSE Repr(Head(args)) \o ", " \o Joined(Tail(args))

\* str(exception): nothing without arguments, str of a single argument, the
\* repr of the tuple of several
StrOfException(exception) ==
    CASE Len(exception.args) = 0 -> ""
      [] Len(exception.args) = 1 ->
            IF Has(exception.args[1], "str") THEN exception.args[1].str
            ELSE Dec(exception.args[1].int)
      [] OTHER -> "(" \o Joined(exception.args) \o ")"

\* lines 15-29
http_error_handler(exception) ==
    <<DTO(exception.code, exception.description), exception.code>>

server_error_handler_status_ok(exception) ==
    <<DTO(INTERNAL_SERVER_ERROR, exception.message), 200>>

\* lines 32-47
server_error_handler(exception) ==
    <<DTO(INTERNAL_SERVER_ERROR, exception.message), INTERNAL_SERVER_ERROR>>

\* lines 50-64
server_unknown_error_handler(exception) ==
    <<DTO(INTERNAL_SERVER_ERROR, StrOfException(exception)), INTERNAL_SERVER_ERROR>>

ExceptionArgs ==
    UNION {[1..n -> {[str |-> "boom"], [str |-> ""], [int |-> 7]}] : n \in 0..MaxArgs}

\* the exceptions that reach the handlers: werkzeug HTTP exceptions with
\* their code and description, core exceptions with their message, and any
\* other exception
Exceptions ==
    {[type |-> "HTTPException", code |-> c, description |-> d] :
        c \in {400, 401, 403, 404, 405, 500},
        d \in {"", "Not Found", "Bad Request", "gone"}}
      \cup {[type |-> "CoreException", message |-> m, args |-> a] :
               m \in {"", "core failed", "boom"}, a \in ExceptionArgs}
      \cup {[type |-> "Exception", args |-> a] : a \in ExceptionArgs}

InitHandlers ==
    /\ exc \in Exceptions
    /\ reply = None
    /\ MetaAtRest
    /\ AppAtRest
    /\ PathAtRest
    /\ ValidatorAtRest
    /\ ItemAtRest
    /\ CallAtRest

HandlersFrame ==
    /\ UNCHANGED exc
    /\ UNCHANGED <<metaVars, appVars, pathVars, validatorVars, itemVars, callVars>>

\* line 15: the handler registered for HTTPException
HandleHttpError ==
    /\ reply = None
    /\ exc.type = "HTTPException"
    /\ reply' = Some(http_error_handler(exc))
    /\ HandlersFrame

\* line 32: the handler registered for CoreException
HandleServerError ==
    /\ reply = None
    /\ exc.type = "CoreException"
    /\ reply' = Some(server_error_handler(exc))
    /\ HandlersFrame

\* line 50: the handler registered for Exception
HandleUnknownError ==
    /\ reply = None
    /\ exc.type = "Exception"
    /\ reply' = Some(server_unknown_error_handler(exc))
    /\ HandlersFrame

NextHandlers == HandleHttpError \/ HandleServerError \/ HandleUnknownError

SpecHandlers == InitHandlers /\ [][NextHandlers]_vars

\* C16: what a handler returns has one code in the body and as the status:
\* for a core exception and for any other exception the internal server
\* error code, with the exception's message as the message of the body (for
\* an exception that is no core exception, what it was raised with), and for
\* an HTTP exception its own code, with its description as the message
C16_CodeMatchesStatus ==
    reply # None =>
        LET body == reply[1][1]
            status == reply[1][2]
        IN /\ body.code = status
           /\ exc.type = "HTTPException" =>
                 status = exc.code /\ body.message = exc.description
           /\ exc.type = "CoreException" =>
                 status = 500 /\ body.message = exc.message
           /\ exc.type = "Exception" =>
                 /\ status = 500
                 /\ (Len(exc.args) = 1 /\ Has(exc.args[1], "str")) =>
                       body.message = exc.args[1].str
                 /\ exc.args = <<>> => body.message = ""

\* a core exception answered with 500 in both places and its message
C16_Witness ==
    /\ exc = [type |-> "CoreException", message |-> "core failed", args |-> <<>>]
    /\ reply = Some(<<[code |-> 500, message |-> "core failed"], 500>>)

(***************************************************************************)
(* StringValidator (validator/handlers/string.py).  True, False and None   *)
(* are written "True", "False" and "None"; a string value is the sequence  *)
(* of its characters.                                                      *)
(***************************************************************************)
MaxLength == 2

\* lines 34-105: the attributes of a new validator, or the error of line 100
StringValidator(options) ==
    LET allow_blank == OptionGet(options, "allow_blank", "None")
        allow_whitespace == OptionGet(options, "allow_whitespace", "None")
        minimum_length == OptionGet(options, "minimum_length", None)
        maximum_length == OptionGet(options, "maximum_length", None)
    IN IF minimum_length # None /\ maximum_length # None
             /\ minimum_length[1] > maximum_length[1]
       THEN [raised |-> "MinimumLengthHigherThanMaximumLengthError"]
       ELSE [allow_blank |-> IF allow_blank = "None" THEN "True" ELSE allow_blank,
             allow_whitespace |-> IF allow_whitespace = "None" THEN "False"
                                  ELSE allow_whitespace,
             minimum_length |-> minimum_length,
             maximum_length |-> maximum_length]

\* a or b, for a that is None, True or False
PyOr(a, b) == IF a = "True" THEN a ELSE b

\* str.isspace
IsSpace(value) == value # <<>> /\ \A i \in 1..Len(value) : value[i] \in {" ", "\t"}

\* lines 111-159, for a value that passes the checks of the base class:
\* the error raised, or "valid"
_validate(self, value, options) ==
    LET allow_blank == PyOr(OptionGet(options, "allow_blank", "None"), self.allow_blank)
        allow_whitespace == PyOr(OptionGet(options, "allow_whitespace", "None"),
                                 self.allow_whitespace)
        length == Len(value)
    IN IF self.maximum_length # None /\ length > self.maximum_length[1]
       THEN "InvalidStringLengthError"
       ELSE IF self.minimum_length # None /\ length < self.minimum_length[1]
       THEN "InvalidStringLengthError"
       ELSE IF allow_blank # "True" /\ length = 0 THEN "ValueCouldNotBeBlankError"
       ELSE IF allow_whitespace # "True" /\ IsSpace(value)
       THEN "ValueCouldNotBeWhitespaceError"
       ELSE "valid"

Lengths == {None} \cup {Some(n) : n \in 0..MaxLength}

KeywordSets ==
    { b @@ w : b \in {<<>>} \cup {[allow_blank |-> x] : x \in {"True", "False", "None"}},
               w \in {<<>>} \cup {[allow_whitespace |-> x] : x \in {"True", "False", "None"}} }

\* the validators that can be made
StringValidators ==
    { v \in { StringValidator(k @@ mn @@ mx) :
                k \in KeywordSets,
                mn \in {<<>>} \cup {[minimum_length |-> x] : x \in Lengths},
                mx \in {<<>>} \cup {[maximum_length |-> x] : x \in Lengths} } :
        ~Has(v, "raised") }

StringValues == UNION {[1..n -> {" ", "a"}] : n \in 0..MaxLength}

InitValidator ==
    /\ validator \in StringValidators
    /\ call_options \in KeywordSets
    /\ candidate \in StringValues
    /\ verdict = None
    /\ MetaAtRest
    /\ AppAtRest
    /\ PathAtRest
    /\ HandlersAtRest
    /\ ItemAtRest
    /\ CallAtRest

\* a call of _validate
Validate ==
    /\ verdict = None
    /\ verdict' = Some(_validate(validator, candidate, call_options))
    /\ UNCHANGED <<validator, call_options, candidate>>
    /\ UNCHANGED <<metaVars, appVars, pathVars, handlerVars, itemVars, callVars>>

NextValidator == Validate

SpecValidator == InitValidator /\ [][NextValidator]_vars

\* the keyword is passed to the call, with True or False
Provided(k) == Has(call_options, k) /\ call_options[k] # "None"

\* C17 (as claimed): when allow_blank is passed to the call, an empty string
\* of a valid length is rejected with the blank error exactly when the value
\* passed is not True, whatever the attribute of the validator; and so for
\* allow_whitespace, a string of whitespace and the whitespace error
C17_KeywordPrecedence ==
    (verdict # None /\ verdict[1] # "InvalidStringLengthError") =>
        /\ (Provided("allow_blank") /\ candidate = <<>>) =>
              (verdict[1] = "ValueCouldNotBeBlankError"
                  <=> call_options.allow_blank # "True")
        /\ (Provided("allow_whitespace") /\ IsSpace(candidate)) =>
              (verdict[1] = "ValueCouldNotBeWhitespaceError"
                  <=> call_options.allow_whitespace # "True")

(***************************************************************************)
(* Cache items (caching/items/base.py).  The clock is time.time() * 1000,  *)
(* read when an item is made, when it is refreshed and when is_expired is  *)
(* asked; it only moves forward here.                                      *)
(***************************************************************************)
MaxTime == 4

MaxTimeout == 2

\* lines 23-32
CacheItemBase(key, value, clock) ==
    [type |-> "CacheItemBase", created_on |-> clock, key |-> key, value |-> value]

\* lines 104-112
ComplexCacheItemBase(key, value, timeout, clock) ==
    [type |-> "ComplexCacheItemBase", created_on |-> clock, key |-> key, value |-> value,
     refreshed_on |-> clock, timeout |-> timeout]

refresh_from_creation(self, clock) == [self EXCEPT !.refreshed_on = self.created_on]

\* lines 127-132
refresh(self, clock) == [self EXCEPT !.refreshed_on = clock]

\* lines 134-142
is_expired(self, clock) == clock - self.refreshed_on > self.timeout

InitItem ==
    /\ now \in 0..1
    /\ \E key \in {"k1", "k2"}, value \in {"v1", "v2"} :
          \/ item = CacheItemBase(key, value, now)
          \/ \E timeout \in 0..MaxTimeout : item = ComplexCacheItemBase(key, value, timeout, now)
    /\ last_refresh = now
    /\ MetaAtRest
    /\ AppAtRest
    /\ PathAtRest
    /\ HandlersAtRest
    /\ ValidatorAtRest
    /\ CallAtRest

ItemFrame == UNCHANGED <<metaVars, appVars, pathVars, handlerVars, validatorVars, callVars>>

\* time passes
Tick ==
    /\ now < MaxTime
    /\ now' = now + 1
    /\ UNCHANGED <<item, last_refresh>>
    /\ ItemFrame

\* a call of refresh(), which only a complex item has
Refresh ==
    /\ item.type = "ComplexCacheItemBase"
    /\ item' = refresh(item, now)
    /\ last_refresh' = now
    /\ UNCHANGED now
    /\ ItemFrame

NextItem == Tick \/ Refresh

SpecItem == InitItem /\ [][NextItem]_vars

\* C18: a complex item with timeout T is expired at a time exactly when
\* that time less the time of its last refresh, or of its creation if it
\* was never refreshed, exceeds T, so it is not expired up to T after the
\* last refresh; no step changes the key, the value or the timeout of an
\* item; a plain item has no timeout and nothing that expires
C18_ExpiresAfterTimeout ==
    /\ [](IF item.type = "ComplexCacheItemBase"
          THEN /\ is_expired(item, now) <=> (now - last_refresh > item.timeout)
               /\ \A t \in last_refresh..(last_refresh + item.timeout) :
                     ~is_expired(item, t)
          ELSE ~Has(item, "timeout") /\ ~Has(item, "refreshed_on"))
    /\ [][/\ item'.key = item.key
           /\ item'.value = item.value
           /\ item'.type = item.type
           /\ Has(item, "timeout") => item'.timeout = item.timeout]_vars

\* an item with timeout 1 made at 0 and refreshed at 2 is not expired at 3
C18_Witness ==
    /\ item.type = "ComplexCacheItemBase"
    /\ item.created_on = 0 /\ item.timeout = 1
    /\ last_refresh = 2 /\ now = 3
    /\ ~is_expired(item, now)

(***************************************************************************)
(* The parameter helpers on their own (lines 174-226): single calls of     *)
(* _add_parameter and of _get_param_location.                              *)
(***************************************************************************)
AddParameterCalls ==
    { [fn |-> "_add_parameter", parameters |-> ps, name |-> n, type_ |-> t, in_ |-> l,
       options |-> o] :
        ps \in ParamLists, n \in {"id", "q", "new"},
        t \in {None, Some("integer")}, l \in {"path", "query"},
        o \in { <<>>, [add_first |-> TRUE], [add_first |-> FALSE, required |-> TRUE],
                [add_first |-> TRUE, required |-> TRUE, format |-> Some("int32"),
                 description |-> Some("added")] } }

VerbSpellings ==
    { "get", "GET", "Get", "gEt", "head", "HEAD", "Head", "options", "OPTIONS", "oPTIONS",
      "post", "POST", "Post", "put", "PUT", "delete", "DELETE", "Delete", "patch", "PATCH" }

ParamLocationCalls ==
    { [fn |-> "_get_param_location", name |-> n, rule |-> [arguments |-> a], verb |-> v] :
        n \in {"id", "q", "slug"}, a \in {{}, {"id"}, {"id", "slug"}},
        v \in VerbSpellings }

InitCall ==
    /\ call_args \in AddParameterCalls \cup ParamLocationCalls
    /\ returned = None
    /\ MetaAtRest
    /\ AppAtRest
    /\ PathAtRest
    /\ HandlersAtRest
    /\ ValidatorAtRest
    /\ ItemAtRest

CallFrame ==
    /\ UNCHANGED call_args
    /\ UNCHANGED <<metaVars, appVars, pathVars, handlerVars, validatorVars, itemVars>>

\* lines 174-201: the value returned and the list as the call leaves it
AddParameter ==
    /\ returned = None
    /\ call_args.fn = "_add_parameter"
    /\ returned' = Some([value |-> Added(call_args.parameters, call_args.name),
                         parameters |-> _add_parameter(call_args.parameters, call_args.name,
                                                       call_args.type_, call_args.in_,
                                                       call_args.options)])
    /\ CallFrame

\* lines 203-226
GetParamLocation ==
    /\ returned = None
    /\ call_args.fn = "_get_param_location"
    /\ returned' = Some(_get_param_location(call_args.name, call_args.rule, call_args.verb))
    /\ CallFrame

NextCall == AddParameter \/ GetParamLocation

SpecCall == InitCall /\ [][NextCall]_vars

\* C19: _add_parameter for a name the list already has returns False and
\* leaves the list as it was; for a new name it returns True and the list
\* has one entry more, which carries the name, the location and the required
\* flag (False when none is given) and stands first when add_first is true
\* and last otherwise, the earlier entries keeping their content and order
C19_AddParameterFrame ==
    (returned # None /\ call_args.fn = "_add_parameter") =>
        LET before == call_args.parameters
            after == returned[1].parameters
            known == \E i \in 1..Len(before) : before[i].name = call_args.name
            first == Has(call_args.options, "add_first") /\ call_args.options.add_first
            place == IF first THEN 1 ELSE Len(after)
        IN IF known
           THEN returned[1].value = FALSE /\ after = before
           ELSE /\ returned[1].value = TRUE
                /\ Len(after) = Len(before) + 1
                /\ after[place].name = call_args.name
                /\ after[place].in = call_args.in_
                /\ after[place].required =
                      (Has(call_args.options, "required") /\ call_args.options.required)
                /\ \A i \in 1..Len(before) :
                      after[IF first THEN i + 1 ELSE i] = before[i]

\* new is added before the two entries of the list
C19_Witness ==
    /\ returned # None
    /\ call_args.fn = "_add_parameter"
    /\ call_args.name = "new"
    /\ call_args.options = [add_first |-> TRUE]
    /\ Len(call_args.parameters) = 2
    /\ returned[1].value = TRUE
    /\ returned[1].parameters[1] = [name |-> "new", required |-> FALSE, in |-> call_args.in_]

\* the verbs that are GET, HEAD or OPTIONS in some spelling
QueryVerbs ==
    { "get", "GET", "Get", "gEt", "head", "HEAD", "Head", "options", "OPTIONS", "oPTIONS" }

\* C20: _get_param_location answers path for a path argument of the rule
\* whatever the verb, and for any other name query when the verb is GET,
\* HEAD or OPTIONS in any spelling, and json otherwise
C20_ParamLocation ==
    (returned # None /\ call_args.fn = "_get_param_location") =>
        returned[1] = IF call_args.name \in call_args.rule.arguments THEN "path"
                      ELSE IF call_args.verb \in QueryVerbs THEN "query"
                      ELSE "json"

\* q is no path argument and the verb is written Head
C20_Witness ==
    /\ call_args = [fn |-> "_get_param_location", name |-> "q",
                    rule |-> [arguments |-> {"id"}], verb |-> "Head"]
    /\ returned = Some("query")

(***************************************************************************)
(* The steps of _fix_metadata, each called on its own: call_args holds the *)
(* arguments of the call and returned the fragment as the call leaves it.  *)
(***************************************************************************)
\* routes that differ in what decides the required parameters
StepRoutes ==
    { Route(args, [a \in args |-> t], req, "False", FALSE, <<>>, None, <<>>) :
        args \in {{}, {"id"}}, t \in ArgumentTypes,
        req \in {{}, {"q"}, {"id", "lang"}} }

\* a route without arguments, protection, status code and tags
StepRoute == Route({}, <<>>, {}, "False", FALSE, <<>>, None, <<>>)

RequiredCalls ==
    UNION { { [fn |-> "_add_or_fix_required_parameters", rule |-> r, verb |-> v,
               swag |-> s, order |-> o] : o \in Orders(RequiredArgs(r)) } :
            r \in StepRoutes, v \in Verbs, s \in ParameterFragments }

OptionalCalls ==
    { [fn |-> "_fix_optional_parameters", rule |-> r, verb |-> v, swag |-> s] :
        r \in {x \in StepRoutes : \A a \in x.arguments : x.argument_type[a] = "int"},
        v \in Verbs, s \in ParameterFragments }

\* how often one fragment is handed to a step, and how often a fragment is
\* assembled anew
MaxCalls == 2
MaxBuilds == 2

SecurityCalls ==
    { [fn |-> "_add_security_definitions", rule |-> r, verb |-> v, swag |-> s,
       definitions |-> d] :
        r \in ResponseRoutes, v \in Verbs, s \in ResponseFragments,
        d \in SecurityDefinitions }

TagCalls ==
    { [fn |-> "_add_tags", rule |-> r, verb |-> v, swag |-> s] :
        r \in ResponseRoutes, v \in Verbs, s \in ResponseFragments }

StepCalls == RequiredCalls \cup OptionalCalls \cup SecurityCalls \cup TagCalls

InitStep ==
    /\ call_args \in StepCalls
    /\ returned = None
    /\ MetaAtRest /\ AppAtRest /\ PathAtRest /\ HandlersAtRest /\ ValidatorAtRest /\ ItemAtRest

\* lines 303-344
AddOrFixRequiredParameters ==
    /\ returned = None
    /\ call_args.fn = "_add_or_fix_required_parameters"
    /\ returned' = Some(_add_or_fix_required_parameters(call_args.rule, call_args.verb,
                                                        call_args.swag, call_args.order))
    /\ CallFrame

\* lines 346-364
FixOptionalParameters ==
    /\ returned = None
    /\ call_args.fn = "_fix_optional_parameters"
    /\ returned' = Some(_fix_optional_parameters(call_args.rule, call_args.verb,
                                                 call_args.swag))
    /\ CallFrame

\* lines 366-382, on the fragment get_specs has just built (line 817)
AddSecurityDefinitions ==
    /\ returned = None
    /\ call_args.fn = "_add_security_definitions"
    /\ returned' = Some([swag |-> _add_security_definitions(call_args.rule, call_args.verb,
                                                            call_args.swag,
                                                            call_args.definitions),
                         calls |-> 1, builds |-> 1])
    /\ CallFrame

\* lines 366-382, called once more on the fragment the last call left
AddSecurityDefinitionsAgain ==
    /\ returned # None
    /\ call_args.fn = "_add_security_definitions"
    /\ returned[1].calls < MaxCalls
    /\ returned' = Some([swag |-> _add_security_definitions(call_args.rule, call_args.verb,
                                                            returned[1].swag,
                                                            call_args.definitions),
                         calls |-> returned[1].calls + 1,
                         builds |-> returned[1].builds])
    /\ CallFrame

\* lines 762-817: the next assembly starts from swag = {}, merges the
\* documentation into it and calls the step on that fragment
AssembleAgain ==
    /\ returned # None
    /\ call_args.fn = "_add_security_definitions"
    /\ returned[1].builds < MaxBuilds
    /\ returned' = Some([swag |-> _add_security_definitions(call_args.rule, call_args.verb,
                                                            call_args.swag,
                                                            call_args.definitions),
                         calls |-> 1, builds |-> returned[1].builds + 1])
    /\ CallFrame

\* lines 430-442
AddTags ==
    /\ returned = None
    /\ call_args.fn = "_add_tags"
    /\ returned' = Some(_add_tags(call_args.rule, call_args.verb, call_args.swag))
    /\ CallFrame

NextStep ==
    \/ AddTags
    \/ AddOrFixRequiredParameters
    \/ FixOptionalParameters
    \/ AddSecurityDefinitions
    \/ AddSecurityDefinitionsAgain
    \/ AssembleAgain

SpecStep == InitStep /\ [][NextStep]_vars

\* the parameters section of the fragment a step was called on
ParametersBefore == IF Has(call_args.swag, "parameters") THEN call_args.swag.parameters ELSE <<>>

\* the names the route requires: required arguments and path arguments
RequiredNames == call_args.rule.required_arguments \cup call_args.rule.arguments

\* the location a name resolves to
Location(name) ==
    IF name \in call_args.rule.arguments THEN "path"
    ELSE IF call_args.verb \in QueryVerbs THEN "query"
    ELSE "json"

\* the type and format keys that follow from the declared type of a name
Declared(name) ==
    LET t == IF name \in call_args.rule.arguments
             THEN call_args.rule.argument_type[name] ELSE "none"
    IN CASE t = "int" -> [type |-> "integer"]
         [] t = "float" -> [type |-> "number", format |-> "float"]
         [] t = "str" -> [type |-> "string"]
         [] t = "UUID" -> [type |-> "string", format |-> "uuid"]
         [] OTHER -> <<>>

\* key k of entry new is the author's where old has it, the value of filled
\* where filled has it, and absent otherwise
KeptOrFilled(old, new, filled, k) ==
    IF Has(old, k) THEN Has(new, k) /\ new[k] = old[k]
    ELSE IF Has(filled, k) THEN Has(new, k) /\ new[k] = filled[k]
    ELSE ~Has(new, k)

\* C21: _add_or_fix_required_parameters changes an entry that already
\* documents a required name in place: required becomes True whatever it
\* was, in, type and format take the inferred values only where the entry
\* has no such key, every other key of the author keeps its value, no second
\* entry of that name is added, and the entry keeps its place among the
\* entries the author wrote
C21_RequiredFixedInPlace ==
    (returned # None /\ call_args.fn = "_add_or_fix_required_parameters") =>
        LET before == ParametersBefore
            after == returned[1].parameters
            shift == Len(after) - Len(before)
            documented == {before[i].name : i \in 1..Len(before)}
        IN /\ shift = Cardinality(RequiredNames \ documented)
           /\ \A i \in 1..Len(before) :
                 LET old == before[i]
                     new == after[i + shift]
                 IN /\ new.name = old.name
                    /\ old.name \in RequiredNames =>
                          /\ new.required = TRUE
                          /\ new.in = IF Has(old, "in") THEN old.in ELSE Location(old.name)
                          /\ KeptOrFilled(old, new, Declared(old.name), "type")
                          /\ KeptOrFilled(old, new, Declared(old.name), "format")
                          /\ \A k \in DOMAIN old \ {"required"} : new[k] = old[k]
                          /\ DOMAIN new \subseteq
                                DOMAIN old \cup {"required", "in", "type", "format"}
                          /\ Cardinality({j \in 1..Len(after) :
                                             after[j].name = old.name}) = 1

\* id is a path argument of type int that the author documented after q
\* with its name alone
C21_Witness ==
    /\ call_args.fn = "_add_or_fix_required_parameters"
    /\ call_args.rule.arguments = {"id"}
    /\ call_args.rule.argument_type["id"] = "int"
    /\ call_args.rule.required_arguments = {"id", "lang"}
    /\ ParametersBefore = <<[name |-> "q"], [name |-> "id"]>>
    /\ returned =
          Some([parameters |->
                  <<[name |-> "lang", required |-> TRUE, in |-> Location("lang")],
                    [name |-> "q"],
                    [name |-> "id", required |-> TRUE, in |-> "path",
                     type |-> "integer"]>>])

\* C22: the entry _add_or_fix_required_parameters creates for a required
\* name or path argument the fragment does not document takes its type from
\* the declared type of the path argument: integer gives type integer and
\* no format, float number with format float, string type string and no
\* format, UUID string with format uuid; any other declared type, and a
\* required name that is no path argument, gives neither type nor format
C22_TypeOfNewEntry ==
    (returned # None /\ call_args.fn = "_add_or_fix_required_parameters") =>
        LET before == ParametersBefore
            after == returned[1].parameters
            documented == {before[i].name : i \in 1..Len(before)}
        IN \A name \in RequiredNames \ documented :
              \E i \in 1..Len(after) :
                 /\ after[i].name = name
                 /\ \A k \in {"type", "format"} :
                       KeptOrFilled(<<>>, after[i], Declared(name), k)

\* id is a path argument of type UUID and q a required name, neither of
\* them documented
C22_Witness ==
    /\ call_args.fn = "_add_or_fix_required_parameters"
    /\ call_args.rule.arguments = {"id"}
    /\ call_args.rule.argument_type["id"] = "UUID"
    /\ call_args.rule.required_arguments = {"q"}
    /\ call_args.verb = "get"
    /\ call_args.order = <<"q", "id">>
    /\ ParametersBefore = <<>>
    /\ returned =
          Some([parameters |->
                  <<[name |-> "id", required |-> TRUE, in |-> "path",
                     type |-> "string", format |-> "uuid"],
                    [name |-> "q", required |-> TRUE, in |-> "query"]>>])

\* C23: _fix_optional_parameters leaves every entry whose name is a
\* required name as it is, and gives every other entry required = False and
\* the location resolved from route and verb, each only where the entry has
\* no such key; the list keeps its length and order and the entries all
\* keys the author wrote, with their values, and get no further key
C23_OptionalFrame ==
    (returned # None /\ call_args.fn = "_fix_optional_parameters") =>
        LET before == ParametersBefore
            after == returned[1].parameters
        IN /\ Len(after) = Len(before)
           /\ DOMAIN returned[1] = DOMAIN call_args.swag \cup {"parameters"}
           /\ \A i \in 1..Len(before) :
                 LET old == before[i]
                     new == after[i]
                 IN IF old.name \in RequiredNames
                    THEN new = old
                    ELSE /\ KeptOrFilled(old, new, [required |-> FALSE], "required")
                         /\ KeptOrFilled(old, new, [in |-> Location(old.name)], "in")
                         /\ \A k \in DOMAIN old : new[k] = old[k]
                         /\ DOMAIN new = DOMAIN old \cup {"required", "in"}

\* id is a path argument documented by its name alone, and lang an
\* optional parameter the author put into the header
C23_Witness ==
    /\ call_args.fn = "_fix_optional_parameters"
    /\ call_args.rule.arguments = {"id"}
    /\ call_args.verb = "post"
    /\ ParametersBefore =
          <<[name |-> "id"], [name |-> "lang", in |-> "header", description |-> "author"]>>
    /\ returned =
          Some([parameters |->
                  <<[name |-> "id"],
                    [name |-> "lang", in |-> "header", description |-> "author",
                     required |-> FALSE]>>])

(***************************************************************************)
(* Properties of the fixed fragment's parameters, continued.               *)
(***************************************************************************)
\* C24: in the fixed fragment every required argument and every path
\* argument of the route has one entry and that entry has required = True,
\* also when the name is the locale, timezone, page or page-size name and
\* whatever the raw fragment said of it: no step after the required ones
\* sets the flag to False or adds a second entry of the name
C24_RequiredStaysRequired ==
    (stage = "fixed" /\ UniqueNames(RawParams)) =>
        \A name \in rule.required_arguments \cup rule.arguments :
           /\ Cardinality(Entries(fixed.parameters, name)) = 1
           /\ \A i \in 1..Len(fixed.parameters) :
                 fixed.parameters[i].name = name =>
                    /\ Has(fixed.parameters[i], "required")
                    /\ fixed.parameters[i].required = TRUE

\* page is a required argument of a paged route and the author documented
\* it without the flag; id is a path argument the author called optional
C24_Witness ==
    /\ stage = "fixed"
    /\ rule.is_paged = "True"
    /\ rule.required_arguments = {"id", PAGE_PARAM_NAME}
    /\ rule.arguments = {"id"}
    /\ \E i, j \in 1..Len(RawParams) :
          /\ RawParams[i].name = PAGE_PARAM_NAME /\ ~Has(RawParams[i], "required")
          /\ RawParams[j].name = "id"
          /\ Has(RawParams[j], "required") /\ RawParams[j].required = FALSE
    /\ \A i \in 1..Len(fixed.parameters) :
          fixed.parameters[i].name \in {"id", PAGE_PARAM_NAME} =>
             fixed.parameters[i].required = TRUE

\* the entry the locale or timezone step creates
InjectedParameter(name) ==
    [name |-> name, required |-> FALSE, in |-> "query", type |-> "string",
     description |-> IF name = LOCALE_PARAM_NAME THEN LocaleDescription
                     ELSE TimezoneDescription]

\* the locale or timezone step creates the entry of that name
Injected(name) == RawEntries(name) = {} /\ name \notin rule.required_arguments \cup rule.arguments

Schemes == IF call_args.definitions = None THEN <<>> ELSE call_args.definitions[1]

\* C26: on a protected route with configured schemes every call of
\* _add_security_definitions puts one {scheme: []} object per scheme, in
\* the configuration's order, behind the entries the security section has,
\* which stay as they are, whether or not the section names the scheme
\* already; on a route that is not protected, or without a scheme, the
\* fragment stays as it is and gets no security section; and in every
\* assembly, which starts from a fragment of its own, the entries added
\* are as many as the schemes, however many assemblies went before
C26_SecurityAppended ==
    (returned # None /\ call_args.fn = "_add_security_definitions") =>
        LET before == IF Has(call_args.swag, "security")
                      THEN call_args.swag.security ELSE <<>>
            after == returned[1].swag
            calls == returned[1].calls
            n == Len(Schemes)
        IN IF call_args.rule.protected /\ n > 0
           THEN /\ DOMAIN after = DOMAIN call_args.swag \cup {"security"}
                /\ \A k \in DOMAIN call_args.swag \ {"security"} :
                      after[k] = call_args.swag[k]
                /\ Len(after.security) = Len(before) + calls * n
                /\ \A i \in 1..Len(before) : after.security[i] = before[i]
                /\ \A c \in 0..(calls - 1) : \A j \in 1..n :
                      after.security[Len(before) + c * n + j]
                         = [x \in {Schemes[j]} |-> <<>>]
                /\ calls = 1 => Len(after.security) - Len(before) = n
           ELSE after = call_args.swag

\* a second assembly of a protected route under two schemes, whose security
\* section the step was called on twice
C26_Witness ==
    /\ returned # None
    /\ call_args.fn = "_add_security_definitions"
    /\ call_args.rule.protected
    /\ call_args.definitions = Some(<<"Bearer", "ApiKey">>)
    /\ Has(call_args.swag, "security")
    /\ returned[1].builds = 2
    /\ returned[1].calls = 2
    /\ returned[1].swag.security =
          <<[OAuth |-> <<"read">>], [Bearer |-> <<>>], [ApiKey |-> <<>>],
            [Bearer |-> <<>>], [ApiKey |-> <<>>]>>

(***************************************************************************)
(* Properties of the fixed fragment's responses.                           *)
(***************************************************************************)
\* the places of the fixed fragment's responses under the int key of a code
FixedResponsesAt(code) ==
    {i \in 1..Len(fixed.responses) : fixed.responses[i].key = [int |-> code]}

\* C27: the fixed fragment has one response under the resolved success
\* code, which is the route's status_code when that is not None and the
\* default of the verb otherwise; it is the fixed success description when
\* the raw fragment had no response for that code; the raw responses stay
\* as they are, and of the responses added none is under another success
\* code
C27_SuccessResponse ==
    stage = "fixed" =>
        LET code == IF rule.status_code # None THEN rule.status_code[1]
                    ELSE get_status_code(Upper(verb))
        IN /\ Cardinality(FixedResponsesAt(code)) = 1
           /\ RawResponsesFor(code) = {} =>
                 \A i \in FixedResponsesAt(code) :
                    fixed.responses[i].value = [description |-> SuccessDescription]
           /\ Len(fixed.responses) >= Len(RawResponses)
           /\ \A i \in 1..Len(RawResponses) : fixed.responses[i] = RawResponses[i]
           /\ \A i \in (Len(RawResponses) + 1)..Len(fixed.responses) :
                 \A n \in 200..299 :
                    fixed.responses[i].key \in {[int |-> n], [str |-> Dec(n)]} => n = code

\* a POST route with the status code 202 whose author documented a
\* response for 200 alone
C27_Witness ==
    /\ stage = "fixed"
    /\ verb = "post"
    /\ rule.status_code = Some(202)
    /\ ~rule.protected
    /\ RawResponses = <<[key |-> [int |-> 200], value |-> AuthorResponse("author 200")]>>
    /\ fixed.responses =
          <<[key |-> [int |-> 200], value |-> AuthorResponse("author 200")],
            [key |-> [int |-> 202], value |-> [description |-> SuccessDescription]]>>

\* the tags the resolver holds for the route and the verb in upper case
ResolverTags ==
    LET method == CASE call_args.verb = "get" -> "GET"
                    [] call_args.verb = "post" -> "POST"
    IN IF method \in DOMAIN call_args.rule.tags THEN call_args.rule.tags[method] ELSE <<>>

\* C28: _add_tags puts the tags the resolver answers for the route and the
\* upper-case verb behind the tags of the fragment, in the resolver's
\* order, the author's tags and every other key staying as they are; when
\* the resolver answers none the fragment is what it was and gets no tags
\* section
C28_TagsAppended ==
    (returned # None /\ call_args.fn = "_add_tags") =>
        LET before == IF Has(call_args.swag, "tags") THEN call_args.swag.tags ELSE <<>>
            after == returned[1]
        IN IF ResolverTags = <<>>
           THEN after = call_args.swag
           ELSE /\ DOMAIN after = DOMAIN call_args.swag \cup {"tags"}
                /\ \A k \in DOMAIN call_args.swag \ {"tags"} : after[k] = call_args.swag[k]
                /\ Len(after.tags) = Len(before) + Len(ResolverTags)
                /\ \A i \in 1..Len(before) : after.tags[i] = before[i]
                /\ \A i \in 1..Len(ResolverTags) :
                      after.tags[Len(before) + i] = ResolverTags[i]

\* a GET route with two resolver tags whose author wrote a tag too
C28_Witness ==
    /\ call_args.fn = "_add_tags"
    /\ call_args.verb = "get"
    /\ Has(call_args.swag, "tags")
    /\ call_args.swag.tags = <<"author">>
    /\ returned # None
    /\ returned[1].tags = <<"author", "users", "api">>

(***************************************************************************)
(* The folding of inline schemas into the definitions of the document      *)
(* (get_apispecs, lines 578-640), for one (verb, fragment) pair of what    *)
(* get_specs returns.  A schema is an object the items of the fragment     *)
(* refer to: call_args.schemas holds the objects, and an item that         *)
(* carries a schema holds the object's name.                               *)
(***************************************************************************)
\* how many parameters and how many responses of a fragment carry a schema
MaxItems == 2

SchemaObjects == {"a", "b"}

\* schemas as an author writes them inline, with and without an id
Schemas ==
    { [id |-> "User", type |-> "object"],
      [id |-> "User", type |-> "record", description |-> "a user"],
      [id |-> "Error", type |-> "object"],
      [type |-> "string"] }

\* the parameters and responses that carry a schema
SchemaParameters == {[name |-> o, in |-> "body", schema |-> o] : o \in SchemaObjects}
SchemaResponses ==
    { [key |-> [int |-> 200], value |-> [description |-> "ok", schema |-> o]] :
        o \in SchemaObjects }
      \cup { [key |-> [int |-> 404], value |-> [description |-> "none", schema |-> o]] :
               o \in SchemaObjects }

\* the sequences over S of up to n members, no two of them under one name or key
Distinct(S, n, label(_)) ==
    {q \in UNION {[1..m -> S] : m \in 0..n} :
        \A i, j \in 1..Len(q) : label(q[i]) = label(q[j]) => i = j}

\* the raw fragments of a view whose documentation holds inline schemas
SchemaFragments ==
    { ps @@ rs :
        ps \in {<<>>} \cup {[parameters |-> q] :
                               q \in Distinct(SchemaParameters \cup {[name |-> "q"]},
                                              MaxItems, LAMBDA x : x.name)},
        rs \in {<<>>} \cup {[responses |-> q] :
                               q \in Distinct(SchemaResponses, MaxItems,
                                              LAMBDA x : x.key) \ {<<>>}} }

\* the definitions of the document before the pair is folded in
DefinitionMaps == {<<>>, [User |-> [type |-> "old", title |-> "T"]]}

\* lines 744-818: the fragment get_specs hands over has been through
\* _fix_metadata
FoldCalls ==
    { [fn |-> "fold", top |-> d, schemas |-> h, verb |-> v, raw |-> f,
       swag |-> _fix_metadata(StepRoute, v, f, <<>>, None)] :
        d \in DefinitionMaps, h \in [SchemaObjects -> Schemas],
        v \in Verbs, f \in SchemaFragments }

\* the values of a responses dict, in the dict's order
Values(responses) == [i \in 1..Len(responses) |-> responses[i].value]

\* flasgger.utils.extract_definitions on the items of a parameter list or
\* of the values of a responses dict: the schema of every item whose
\* schema has an id, in the items' order
RECURSIVE extract_definitions(_, _)
extract_definitions(alist, schemas) ==
    IF alist = <<>> THEN <<>>
    ELSE LET head == Head(alist)
             found == IF Has(head, "schema") /\ Has(schemas[head.schema], "id")
                      THEN <<head.schema>> ELSE <<>>
         IN found \o extract_definitions(Tail(alist), schemas)

\* lines 638-640, were the definition of the id put in place of the old one
MergeDefinition_replaces(top, def_id, definition) == Put(top, def_id, definition)

\* lines 638-640: definitions[def_id].update(definition) on a defaultdict
MergeDefinition(top, def_id, definition) ==
    Put(top, def_id, Update(IF Has(top, def_id) THEN top[def_id] ELSE <<>>, definition))

\* lines 634-640: the loop over the extracted schemas; pop takes the id out
\* of the schema object itself
RECURSIVE FoldDefinitions(_, _, _)
FoldDefinitions(defs, schemas, top) ==
    IF defs = <<>> THEN [definitions |-> top, schemas |-> schemas]
    ELSE LET o == Head(defs)
             definition == schemas[o]
         IN IF ~Has(definition, "id")
            THEN FoldDefinitions(Tail(defs), schemas, Update(top, definition))
            ELSE LET popped == [k \in DOMAIN definition \ {"id"} |-> definition[k]]
                 IN FoldDefinitions(Tail(defs), [schemas EXCEPT ![o] = popped],
                                    MergeDefinition(top, definition.id, popped))

\* lines 578-640 for one (verb, swag) pair
Folded(fragment, schemas, top) ==
    LET top1 == Update(top, DefinitionsOf(fragment).dict)
        params == IF Has(fragment, "parameters") THEN fragment.parameters ELSE <<>>
        defs == extract_definitions(params, schemas)
    IN IF Has(fragment, "responses")
       THEN FoldDefinitions(defs \o extract_definitions(Values(fragment.responses), schemas),
                            schemas, top1)
       ELSE [definitions |-> top1, schemas |-> schemas]

InitFold ==
    /\ call_args \in FoldCalls
    /\ returned = None
    /\ MetaAtRest /\ AppAtRest /\ PathAtRest /\ HandlersAtRest /\ ValidatorAtRest /\ ItemAtRest

\* lines 578-640
Fold ==
    /\ returned = None
    /\ call_args.fn = "fold"
    /\ returned' = Some(Folded(call_args.swag, call_args.schemas, call_args.top))
    /\ CallFrame

NextFold == Fold

SpecFold == InitFold /\ [][NextFold]_vars

\* the schema objects the items of the raw fragment refer to, one for each
\* item that does: parameters first, then responses
Referred ==
    LET f == call_args.raw
        ps == IF Has(f, "parameters") THEN f.parameters ELSE <<>>
        rs == IF Has(f, "responses") THEN Values(f.responses) ELSE <<>>
        carriers == SelectSeq(ps \o rs, LAMBDA x : Has(x, "schema"))
    IN [i \in 1..Len(carriers) |-> carriers[i].schema]

\* the schema objects with an id that an item of the raw fragment refers to
Extracted ==
    {Referred[i] : i \in {j \in 1..Len(Referred) : Has(call_args.schemas[Referred[j]], "id")}}

\* the extracted objects that two items share: the loop meets them a second
\* time, when their id is gone
Shared ==
    {o \in Extracted : Cardinality({i \in 1..Len(Referred) : Referred[i] = o}) > 1}

\* the values the schemas of S give to key k
ValuesOf(S, k) == {call_args.schemas[o][k] : o \in {x \in S : Has(call_args.schemas[x], k)}}

\* C29: for every documented route and verb, each inline schema with an id
\* is folded into the definitions under its id, without the id key, which
\* the inline schema loses too; a schema the loop meets without an id has
\* its keys put into the definitions directly; and folding under an id the
\* definitions already have adds to that definition and overwrites the keys
\* the schema has, the other keys and the other definitions staying
C29_DefinitionsFolded ==
    (returned # None /\ call_args.fn = "fold") =>
        LET before == call_args.top
            after == returned[1].definitions
            ids == {call_args.schemas[o].id : o \in Extracted}
            with(d) == {o \in Extracted : call_args.schemas[o].id = d}
            direct == UNION {DOMAIN call_args.schemas[o] \ {"id"} : o \in Shared}
        IN /\ DOMAIN after = DOMAIN before \cup ids \cup direct
           /\ \A o \in Extracted : ~Has(returned[1].schemas[o], "id")
           /\ \A o \in SchemaObjects \ Extracted :
                 returned[1].schemas[o] = call_args.schemas[o]
           /\ \A d \in ids :
                 LET old == IF Has(before, d) THEN before[d] ELSE <<>>
                     new == after[d]
                 IN /\ DOMAIN new =
                          DOMAIN old \cup
                             UNION {DOMAIN call_args.schemas[o] \ {"id"} : o \in with(d)}
                    /\ \A k \in DOMAIN new :
                          IF ValuesOf(with(d), k) = {} THEN new[k] = old[k]
                          ELSE new[k] \in ValuesOf(with(d), k)
           /\ \A d \in DOMAIN before \ ids : after[d] = before[d]
           /\ \A k \in direct : after[k] \in ValuesOf(Shared, k)

\* the definitions have a User already; a parameter and a response share
\* one schema with the id User, and another response has a schema of its
\* own with the id Error
C29_Witness ==
    /\ returned # None
    /\ call_args.fn = "fold"
    /\ call_args.top = [User |-> [type |-> "old", title |-> "T"]]
    /\ call_args.schemas =
          [o \in SchemaObjects |->
             IF o = "a" THEN [id |-> "User", type |-> "record", description |-> "a user"]
             ELSE [id |-> "Error", type |-> "object"]]
    /\ Referred = <<"a", "a", "b">>
    /\ ~Has(call_args.raw, "definitions")
    /\ returned[1].definitions =
          [User |-> [type |-> "record", title |-> "T", description |-> "a user"],
           Error |-> [type |-> "object"],
           type |-> "record", description |-> "a user"]

(***************************************************************************)
(* The command list of a CLI handler (pyrin/cli/base.py).  The handler is  *)
(* constructed with the argument metadata its _process_arguments           *)
(* registers, in the order of registration; call_args holds them, each     *)
(* with what its get_representation answers for the inputs of the          *)
(* execution: None, one value, or a list of values.                        *)
(***************************************************************************)
\* how many arguments a handler registers
MaxArguments == 3

NoRepresentation == [kind |-> "none"]
Single(value) == [kind |-> "single", value |-> value]
Listed(values) == [kind |-> "list", values |-> values]

\* a PositionalArgumentMetadata with its index, and the representations of
\* its values
Positional(index) ==
    { [positional |-> TRUE, index |-> index, representation |-> r] :
        r \in {NoRepresentation, Single("p" \o Dec(index)),
                Listed(<<"p" \o Dec(index) \o "x", "p" \o Dec(index) \o "y">>)} }

\* any other ArgumentMetadataBase
NonPositional ==
    { [positional |-> FALSE, representation |-> r] :
        r \in {NoRepresentation, Single("--flag"), Listed(<<"--name", "value">>)} }

ArgumentsMetadata ==
    UNION {[1..n -> NonPositional \cup UNION {Positional(i) : i \in 0..(MaxArguments - 1)}] :
             n \in 0..MaxArguments}

CLICalls == {[fn |-> "_bind_cli_arguments", name |-> "cmd", metadata |-> m] :
               m \in ArgumentsMetadata}

\* lines 136-158: whether the indices of the positional arguments, sorted,
\* are 0..length-1, so that nothing is raised
_validate_positional_arguments(metadata) ==
    LET positionals == SelectSeq(metadata, LAMBDA x : x.positional)
        length == Len(positionals)
    IN \A i \in 0..(length - 1) :
          Cardinality({j \in 1..length : positionals[j].index = i}) = 1

\* list.insert(index, value): at the end when the list is shorter
Insert(commands, index, value) ==
    LET k == IF index < Len(commands) THEN index ELSE Len(commands)
    IN SubSeq(commands, 1, k) \o <<value>> \o SubSeq(commands, k + 1, Len(commands))

\* lines 298-308
RECURSIVE _inject_positional_arguments(_, _, _)
_inject_positional_arguments(commands, arguments, index) ==
    IF arguments = <<>> THEN commands
    ELSE _inject_positional_arguments(Insert(commands, index, Head(arguments)),
                                      Tail(arguments), index + 1)

\* lines 275-291: one turn of the loop over the registered arguments
Bound(commands, metadata) ==
    LET representation == metadata.representation
    IN IF representation.kind = "none" THEN commands
       ELSE IF metadata.positional
            THEN IF representation.kind = "list"
                 THEN _inject_positional_arguments(commands, representation.values,
                                                   metadata.index + 1)
                 ELSE Insert(commands, metadata.index + 1, representation.value)
       ELSE IF representation.kind = "list"
            THEN commands \o representation.values
            ELSE Append(commands, representation.value)

RECURSIVE BindAll(_, _)
BindAll(commands, metadata) ==
    IF metadata = <<>> THEN commands
    ELSE BindAll(Bound(commands, Head(metadata)), Tail(metadata))

\* lines 261-293
_bind_cli_arguments(name, metadata) == BindAll(<<name>>, metadata)

InitCLI ==
    /\ call_args \in CLICalls
    /\ returned = None
    /\ MetaAtRest /\ AppAtRest /\ PathAtRest /\ HandlersAtRest /\ ValidatorAtRest /\ ItemAtRest

\* lines 74-118: __init__ ends with process_arguments, which raises
\* PositionalArgumentsIndicesError for indices that are not 0..length-1
Construct ==
    /\ returned = None
    /\ returned' = Some(IF _validate_positional_arguments(call_args.metadata)
                         THEN [handler |-> "constructed"]
                         ELSE [handler |-> "PositionalArgumentsIndicesError"])
    /\ CallFrame

\* lines 261-293, on a handler that was constructed
BindCLIArguments ==
    /\ returned = Some([handler |-> "constructed"])
    /\ returned' = Some([handler |-> "constructed",
                         commands |-> _bind_cli_arguments(call_args.name,
                                                          call_args.metadata)])
    /\ CallFrame

NextCLI == Construct \/ BindCLIArguments

SpecCLI == InitCLI /\ [][NextCLI]_vars

\* the values an argument hands to the command list
ValuesOfArgument(metadata) ==
    CASE metadata.representation.kind = "none" -> <<>>
      [] metadata.representation.kind = "single" -> <<metadata.representation.value>>
      [] metadata.representation.kind = "list" -> metadata.representation.values

\* the values of the positional arguments with indices from..n-1, by index
RECURSIVE PositionalValues(_, _)
PositionalValues(from, n) ==
    IF from >= n THEN <<>>
    ELSE LET m == CHOOSE x \in {call_args.metadata[j] : j \in 1..Len(call_args.metadata)} :
                     x.positional /\ x.index = from
         IN ValuesOfArgument(m) \o PositionalValues(from + 1, n)

\* C30: the command list of a handler whose positional indices are 0..n-1
\* begins with the handler's name, then holds the values of the positional
\* arguments that have any, by ascending index and those of one argument
\* together, and after them the non-positional arguments, whatever the
\* order of registration
C30_PositionalsInIndexOrder ==
    (returned # None /\ Has(returned[1], "commands")) =>
        LET n == Cardinality({j \in 1..Len(call_args.metadata) :
                                call_args.metadata[j].positional})
            front == <<call_args.name>> \o PositionalValues(0, n)
        IN /\ Len(returned[1].commands) >= Len(front)
           /\ SubSeq(returned[1].commands, 1, Len(front)) = front
====
